---- MODULE Spec2Model ----
(***************************************************************************)
(* Export orchestration of the Trading212 tracker: the HistoryExport       *)
(* component (src/src/components/HistoryExport.jsx, the later variant at   *)
(* lines 496-1170), the Dashboard mirror of export descriptors             *)
(* (src/unnamed/part_004) and the HistoryDownload mirror                   *)
(* (src/unnamed/part_003), against a remote export API.                    *)
(*                                                                         *)
(* Timestamps are records of their UTC components; an ISO string and the   *)
(* Date parsed from it carry exactly these components.                     *)
(***************************************************************************)
EXTENDS Integers, Sequences, FiniteSets, TLC

\* ------------------------------------------------------------------ bounds
MaxRuns == 1          \* orchestration runs started over one behaviour
MaxClock == 2         \* distinct values of "now"
MaxNewExports == 2    \* export jobs the remote accepts over one behaviour
MaxInitExports == 2   \* export jobs the remote holds at the start
MaxExportsList == 2   \* descriptors in the list given to ingestion
MaxLineLen == 4       \* characters of a generated CSV line
MaxCalls == 4         \* calls made on one Trading212Service instance
MaxTransactions == 3   \* rows of a transaction list given to an analysis
MaxChanges == 4        \* changes of exportData over one behaviour
MaxDataLines == 2     \* lines after the header line of a generated CSV text

\* ------------------------------------------------------- program constants
CurrentYear == 2021
MinStartYear == 2019
\* A start value one digit short of the 20 s floor.
InitialBaseDelay_short == 20 * 100
InitialBaseDelay == 20000
MaxBaseDelay == 120000
RetryBase == 20000
RetryCap == 60000
MaxRetryCount == 2
OutdatedDays == 7
NoYear == 0           \* null returned by the year predicates
Tolerance == 10        \* 0.0001 share, in units of 0.00001 share
MaxAttempts == 30     \* waitForExportCompletion: maxAttempts
PollDelayMs == 10000  \* waitForExportCompletion: delayMs

RunIds == 1..MaxRuns

\* ---------------------------------------------------------------- helpers
Min(a, b) == IF a < b THEN a ELSE b

RECURSIVE Pow2(_)
Pow2(n) == IF n = 0 THEN 1 ELSE 2 * Pow2(n - 1)

SeqToSet(s) == {s[k] : k \in DOMAIN s}

\* existingExports.find(exp => exp.reportId === reportId): the first such
\* element, as a sequence of length 0 (undefined) or 1.
findByReportId(s, reportId) ==
  LET hits == SelectSeq(s, LAMBDA exp : exp.reportId = reportId)
  IN  IF hits = <<>> THEN <<>> ELSE <<Head(hits)>>

\* ------------------------------------------------------------- timestamps
TS(y, mo, d, h, mi, s) == [y |-> y, mo |-> mo, d |-> d, h |-> h, mi |-> mi, s |-> s]

\* Days before the first of each month (0-based month), common year.
DaysBefore == <<0, 31, 59, 90, 120, 151, 181, 212, 243, 273, 304, 334>>

\* Date value in seconds, counted from 2000-01-01 (only differences and
\* comparisons inside one calendar year are taken of it).
Secs(t) ==
  ((((t.y - 2000) * 365 + DaysBefore[t.mo + 1] + (t.d - 1)) * 24 + t.h) * 60 + t.mi) * 60 + t.s

Jan1(y) == TS(y, 0, 1, 0, 0, 0)
Dec31(y, s) == TS(y, 11, 31, 23, 59, s)

\* new Date() at clock value c: noon of a June day of the current year.
NowAt(c) == TS(CurrentYear, 5, 1 + 9 * (c - 1), 12, 0, 0)

\* ------------------------------------------------------------ descriptors
Descriptor(id, from, to, st, link) ==
  [reportId |-> id, timeFrom |-> from, timeTo |-> to, status |-> st, downloadLink |-> link]

\* String.prototype.toLowerCase on the status strings in play.
toLowerCase(st) ==
  CASE st = "Finished" -> "finished"
    [] st = "Processing" -> "processing"
    [] st = "Failed" -> "failed"
    [] OTHER -> st

isFinished(exp) == toLowerCase(exp.status) = "finished"

\* ------------------------------------------------- insertion-ordered Map
MapHas(m, k) == \E j \in DOMAIN m : m[j].k = k
MapGet(m, k) == m[CHOOSE j \in DOMAIN m : m[j].k = k].v
MapSet(m, k, v) ==
  IF MapHas(m, k)
  THEN [j \in DOMAIN m |-> IF m[j].k = k THEN [k |-> k, v |-> v] ELSE m[j]]
  ELSE Append(m, [k |-> k, v |-> v])
MapValues(m) == [j \in DOMAIN m |-> m[j].v]

\* --------------------------------------------- HistoryExport: year predicate
isCurrentYearOutdated(exportEnd, now) ==
  ((Secs(now) - Secs(exportEnd)) \div 86400) > OutdatedDays

startsAtYearStart(from) ==
  from.mo = 0 /\ from.d = 1 /\ from.h = 0 /\ from.mi = 0 /\ from.s = 0

isValidFullYear(from, to) ==
  from.y = to.y /\ startsAtYearStart(from) /\ to.mo = 11 /\ to.d = 31

isCurrentYearExport(from, to) ==
  from.y = CurrentYear /\ to.y = CurrentYear /\ startsAtYearStart(from)

\* Returns {year, isOutdated}, or null (ok = FALSE).
getYearFromTimeRange(from, to, now) ==
  IF isValidFullYear(from, to) \/ isCurrentYearExport(from, to)
  THEN [ok |-> TRUE, year |-> from.y,
        isOutdated |-> isCurrentYearExport(from, to) /\ isCurrentYearOutdated(to, now)]
  ELSE [ok |-> FALSE, year |-> NoYear, isOutdated |-> FALSE]

\* ------------------------------------ HistoryExport: loadExistingExports
\* The full-year exports handed to onExportComplete: finished, with a
\* report id, one per year, the first of the list for each year.
fullYearExports(exports, now) ==
  LET keep(exp) == /\ isFinished(exp)
                   /\ exp.reportId # 0
                   /\ getYearFromTimeRange(exp.timeFrom, exp.timeTo, now).ok
      step(m, exp) ==
        LET yr == getYearFromTimeRange(exp.timeFrom, exp.timeTo, now).year
        IN  IF ~MapHas(m, yr) THEN MapSet(m, yr, exp) ELSE m
      RECURSIVE forEach(_, _)
      forEach(m, s) == IF s = <<>> THEN m ELSE forEach(step(m, Head(s)), Tail(s))
  IN  MapValues(forEach(<<>>, SelectSeq(exports, keep)))

\* ------------------------------- HistoryExport: getExistingYearsCovered
\* The map without the current-year exclusion.
yearToReportIdMap_withCurrentYear(existing, now) ==
  LET step(m, exp) ==
        LET yr == getYearFromTimeRange(exp.timeFrom, exp.timeTo, now)
        IN  IF yr.ok /\ ~yr.isOutdated
            THEN MapSet(m, yr.year, exp.reportId)
            ELSE m
      RECURSIVE forEach(_, _)
      forEach(m, s) == IF s = <<>> THEN m ELSE forEach(step(m, Head(s)), Tail(s))
  IN  forEach(<<>>, SelectSeq(existing, isFinished))

\* yearToReportIdMap: for every covered year the report id set last.
yearToReportIdMap(existing, now) ==
  LET step(m, exp) ==
        LET yr == getYearFromTimeRange(exp.timeFrom, exp.timeTo, now)
        IN  IF yr.ok /\ ~yr.isOutdated /\ yr.year # CurrentYear
            THEN MapSet(m, yr.year, exp.reportId)
            ELSE m
      RECURSIVE forEach(_, _)
      forEach(m, s) == IF s = <<>> THEN m ELSE forEach(step(m, Head(s)), Tail(s))
  IN  forEach(<<>>, SelectSeq(existing, isFinished))

\* years: the covered years (the code sorts them; only membership is used).
coveredYears(existing, now) ==
  LET m == yearToReportIdMap(existing, now) IN {m[j].k : j \in DOMAIN m}

\* --------------------------------------- HistoryExport: handleExportHistory
\* The requested years counted down from the current year.
requestedYears_descending(start) == [j \in 1..(CurrentYear - start + 1) |-> CurrentYear - j + 1]

\* for (year = startYear; year <= currentYear; year++) requestedYears.push(year)
requestedYears(start) == [j \in 1..(CurrentYear - start + 1) |-> start + j - 1]

yearsToExport(start, existing, now) ==
  SelectSeq(requestedYears(start), LAMBDA y : y \notin coveredYears(existing, now))

alreadyExistingYears(start, existing, now) ==
  SelectSeq(requestedYears(start), LAMBDA y : y \in coveredYears(existing, now))

\* A line of the results display (exportedReports / reports).
Report(year, id, from, to, st, err) ==
  [year |-> year, reportId |-> id, timeFrom |-> from, timeTo |-> to,
   status |-> st, error |-> err]

\* existingReports: one 'already_exists' line per already covered year.
existingReports(start, existing, now) ==
  LET m == yearToReportIdMap(existing, now)
      ys == alreadyExistingYears(start, existing, now)
      line(y) ==
        LET id == MapGet(m, y)
            found == findByReportId(existing, id)
        IN  Report(y, id,
                   IF found # <<>> THEN found[1].timeFrom ELSE Jan1(y),
                   IF found # <<>> THEN found[1].timeTo ELSE Dec31(y, 55),
                   "already_exists", "")
  IN  [j \in DOMAIN ys |-> line(ys[j])]

\* existingExportData: the descriptors of the already covered years.
existingExportData(start, existing, now) ==
  LET m == yearToReportIdMap(existing, now)
      ys == alreadyExistingYears(start, existing, now)
      RECURSIVE collect(_)
      collect(s) ==
        IF s = <<>> THEN <<>>
        ELSE findByReportId(existing, MapGet(m, Head(s)))
             \o collect(Tail(s))
  IN  collect(ys)

\* exportHistoryByYear: the time range requested for a year.
requestTimeFrom(year) == Jan1(year)
requestTimeTo(year, now) == IF year = CurrentYear THEN now ELSE Dec31(year, 55)

\* A backoff that does not grow with the attempt.
backoffDelay_flat(retryCount) == RetryBase

\* Math.min(20000 * Math.pow(2, retryCount), 60000)
backoffDelay(retryCount) == Min(RetryBase * Pow2(retryCount), RetryCap)

\* Math.min(baseDelay * 2, 120000)
newDelay(baseDelay) == Min(baseDelay * 2, MaxBaseDelay)

\* Nothing is handed over when some year of the run failed.
allSuccessfulExports_allOrNothing(reports) ==
  LET ex == SelectSeq(reports, LAMBDA r : r.status = "exported")
  IN  IF \E j \in DOMAIN reports : reports[j].status = "failed"
      THEN <<>>
      ELSE [j \in DOMAIN ex |->
             Descriptor(ex[j].reportId, ex[j].timeFrom, ex[j].timeTo, "finished", "null")]

\* allSuccessfulExports: the 'exported' lines as finished descriptors.
allSuccessfulExports(reports) ==
  LET ex == SelectSeq(reports, LAMBDA r : r.status = "exported")
  IN  [j \in DOMAIN ex |->
        Descriptor(ex[j].reportId, ex[j].timeFrom, ex[j].timeTo, "finished", "null")]

\* ----------------------------------------------- Dashboard (part_004)
DashboardGetYearFromTimeRange(from, to) ==
  IF isValidFullYear(from, to) \/ isCurrentYearExport(from, to) THEN from.y ELSE NoYear

\* The year map where the descriptor delivered last always replaces.
keepLatest_lastWins(m, exp, yr) ==
  IF yr = NoYear THEN m ELSE MapSet(m, yr, exp)

\* One step of the year map: a descriptor enters if its year is free or
\* its timeTo is later than the held one's.
keepLatest(m, exp, yr) ==
  IF yr = NoYear THEN m
  ELSE IF ~MapHas(m, yr) THEN MapSet(m, yr, exp)
  ELSE IF Secs(exp.timeTo) > Secs(MapGet(m, yr).timeTo) THEN MapSet(m, yr, exp)
  ELSE m

\* handleExportComplete: the setExportData updater.
mergeExportData(prev, exportDataArray) ==
  LET step(m, exp) ==
        keepLatest(m, exp, DashboardGetYearFromTimeRange(exp.timeFrom, exp.timeTo))
      RECURSIVE forEach(_, _)
      forEach(m, s) == IF s = <<>> THEN m ELSE forEach(step(m, Head(s)), Tail(s))
  IN  MapValues(forEach(forEach(<<>>, prev), exportDataArray))

\* handleExportComplete: [...new Set([...prev, ...reportIds])]
RECURSIVE dedupe(_)
dedupe(s) ==
  IF s = <<>> THEN <<>>
  ELSE LET front == dedupe(SubSeq(s, 1, Len(s) - 1))
       IN  IF s[Len(s)] \in SeqToSet(front) THEN front ELSE Append(front, s[Len(s)])

mergeReportIds(prev, exportDataArray) ==
  dedupe(prev \o [j \in DOMAIN exportDataArray |-> exportDataArray[j].reportId])

\* --------------------------------------------- HistoryDownload (part_003)
getYearFromExport(exp) ==
  IF isValidFullYear(exp.timeFrom, exp.timeTo) \/ isCurrentYearExport(exp.timeFrom, exp.timeTo)
  THEN exp.timeFrom.y ELSE NoYear

\* The setExports updater of the exportData effect.
mergeExports(prev, exportData) ==
  LET step(m, exp) == keepLatest(m, exp, getYearFromExport(exp))
      RECURSIVE forEach(_, _)
      forEach(m, s) == IF s = <<>> THEN m ELSE forEach(step(m, Head(s)), Tail(s))
  IN  MapValues(forEach(forEach(<<>>, prev), exportData))

\* ================================================================= state
VARIABLES
  server,             \* remote: the export jobs, in listing order
  clock,              \* index of "now"
  startYear,          \* HistoryExport state
  isExporting,        \* HistoryExport state
  error,              \* HistoryExport state
  existingExports,    \* HistoryExport state
  exportedReports,    \* HistoryExport state
  mountPc,            \* the loadExistingExports call of the mount effect
  runs,               \* the invocations of handleExportHistory
  exportData,         \* Dashboard state
  exportedReportIds,  \* Dashboard state
  exports,            \* HistoryDownload state
  delivered,          \* every descriptor handed to onExportComplete so far
  probe,              \* one call of the year predicate on one descriptor
  ing,                \* HistoryDownload: one call of processCsvData
  csv,                \* HistoryDownload: one call of parseCsv
  svc,                \* one Trading212Service instance and its callers
  agg,                \* one call of an analysis function on a transaction list
  dash                \* Dashboard with HistoryDownload: ingestions in flight

orchVars == <<server, clock, startYear, isExporting, error, existingExports,
              exportedReports, mountPc, runs, exportData, exportedReportIds,
              exports, delivered>>

vars == <<orchVars, probe, ing, csv, svc, agg, dash>>

\* A part of the program that a specification leaves at rest.
Off == [pc |-> "off"]

now == NowAt(clock)

\* Export jobs the remote may hold before the component is mounted.
InitCatalog ==
  { Descriptor(1, Jan1(CurrentYear - 1), Dec31(CurrentYear - 1, 55), "Finished", "url"),
    Descriptor(2, Jan1(CurrentYear - 1), Dec31(CurrentYear - 1, 59), "Finished", "url"),
    Descriptor(3, Jan1(CurrentYear - 1), TS(CurrentYear - 1, 5, 30, 12, 0, 0), "Finished", "url"),
    Descriptor(4, Jan1(CurrentYear), TS(CurrentYear, 4, 30, 12, 0, 0), "Finished", "url") }

InitServers ==
  { s \in UNION { [1..n -> InitCatalog] : n \in 0..MaxInitExports } :
      \A a, b \in DOMAIN s : a # b => s[a] # s[b] }

\* Report ids the remote gives to new jobs follow the catalog's.
nextReportId == Cardinality(InitCatalog) + Len(server) + 1

newExports == Cardinality({k \in DOMAIN server : server[k].reportId > Cardinality(InitCatalog)})

\* Start years the user can type into the input.
StartYearInputs == (CurrentYear - 2)..(CurrentYear + 1)

\* HTTP statuses of a rejected export request, and of a rejected listing.
ErrorStatuses == {429, 401, 500}
ListErrorStatuses == {429, 500}

IdleRun ==
  [pc |-> "idle", startYear |-> NoYear, existingExports |-> <<>>, exportedReports |-> <<>>,
   listOk |-> FALSE, listed |-> <<>>, yearsToExport |-> <<>>, i |-> 0, retryCount |-> 0,
   baseDelay |-> 0, reports |-> <<>>, successfulReportIds |-> <<>>,
   timeTo |-> Jan1(NoYear), delayMs |-> 0, lastStatus |-> 0, sentYears |-> {},
   passed |-> <<>>]

Init ==
  /\ server \in InitServers
  /\ clock = 1
  /\ startYear = CurrentYear - 1
  /\ isExporting = FALSE
  /\ error = "null"
  /\ existingExports = <<>>
  /\ exportedReports = <<>>
  /\ mountPc = "listing"
  /\ runs = [r \in RunIds |-> IdleRun]
  /\ exportData = <<>>
  /\ exportedReportIds = <<>>
  /\ exports = <<>>
  /\ delivered = {}
  /\ probe = Off
  /\ ing = Off
  /\ csv = Off
  /\ svc = Off
  /\ agg = Off
  /\ dash = Off

\* ------------------------------------------------- Dashboard and download
Mirror == [exportData |-> exportData, exportedReportIds |-> exportedReportIds,
           exports |-> exports, delivered |-> delivered]

\* onExportComplete(arr): handleExportComplete, then the exportData effect
\* of HistoryDownload on the re-render.
onExportComplete(m, arr) ==
  LET data == mergeExportData(m.exportData, arr)
  IN  [exportData |-> data,
       exportedReportIds |-> mergeReportIds(m.exportedReportIds, arr),
       exports |-> IF Len(data) > 0 THEN mergeExports(m.exports, data) ELSE m.exports,
       delivered |-> m.delivered \cup SeqToSet(arr)]

\* if (arr.length > 0 && onExportComplete) onExportComplete(arr)
passIfAny(m, arr) == IF Len(arr) > 0 THEN onExportComplete(m, arr) ELSE m

SetMirror(m) ==
  /\ exportData' = m.exportData
  /\ exportedReportIds' = m.exportedReportIds
  /\ exports' = m.exports
  /\ delivered' = m.delivered

\* ------------------------------------------------------- HistoryExport
\* <input onChange={setStartYear(parseInt(value))} disabled={isExporting}>
SetStartYear(y) ==
  /\ ~isExporting
  /\ \E r \in DOMAIN runs : runs[r].pc = "idle"
  /\ startYear # y
  /\ startYear' = y
  /\ UNCHANGED <<probe, ing, csv, svc, agg, dash, server, clock, isExporting, error, existingExports, exportedReports,
                 mountPc, runs, exportData, exportedReportIds, exports, delivered>>

\* The mount effect's loadExistingExports: getExportHistory() resolves.
MountListResolved ==
  /\ mountPc = "listing"
  /\ mountPc' = "done"
  /\ existingExports' = server
  /\ SetMirror(passIfAny(Mirror, fullYearExports(server, now)))
  /\ UNCHANGED <<probe, ing, csv, svc, agg, dash, server, clock, startYear, isExporting, error, exportedReports, runs>>

\* The mount effect's loadExistingExports: getExportHistory() rejects.
MountListRejected(st) ==
  /\ mountPc = "listing"
  /\ mountPc' = "done"
  /\ error' = IF st = 429 THEN "list429" ELSE "listFailed"
  /\ UNCHANGED <<probe, ing, csv, svc, agg, dash, server, clock, startYear, isExporting, existingExports, exportedReports,
                 runs, exportData, exportedReportIds, exports, delivered>>

\* exportHistoryByYear(year, retryCount) up to its await: the request leaves.
sendRequest(run, idx, retryCount) ==
  LET year == run.yearsToExport[idx]
  IN  [run EXCEPT !.pc = "requesting", !.i = idx, !.retryCount = retryCount,
                  !.timeTo = requestTimeTo(year, now), !.delayMs = 0,
                  !.sentYears = run.sentYears \cup {year}]

\* Click on Start Export: handleExportHistory of the current render, up to
\* the await inside loadExistingExports.  The handler keeps the
\* existingExports and exportedReports of the render it belongs to.
StartExport(r) ==
  /\ ~isExporting
  /\ runs[r].pc = "idle"
  /\ \A q \in DOMAIN runs : q < r => runs[q].pc # "idle"
  /\ IF startYear < MinStartYear \/ startYear > CurrentYear
     THEN /\ error' = "invalidYear"
          /\ UNCHANGED runs
     ELSE /\ error' = "null"
          /\ runs' = [runs EXCEPT ![r] =
                [IdleRun EXCEPT !.pc = "listing", !.startYear = startYear,
                                !.existingExports = existingExports,
                                !.exportedReports = exportedReports]]
  /\ UNCHANGED <<probe, ing, csv, svc, agg, dash, server, clock, startYear, isExporting, existingExports, exportedReports,
                 mountPc, exportData, exportedReportIds, exports, delivered>>

\* handleExportHistory after `await loadExistingExports()`: coverage
\* analysis on the handler's existingExports, the results display, and
\* the first request of the loop.  m is the mirror after loadExistingExports.
\* The nothing-to-export return (pc "timer": isExporting is reset by a
\* 5 second setTimeout) is written out as the code has it; the current year
\* is never counted as covered, so yearsToExport always holds it.
afterLoad(r, run, m) ==
  LET years == yearsToExport(run.startYear, run.existingExports, now)
      already == alreadyExistingYears(run.startYear, run.existingExports, now)
      lines == existingReports(run.startYear, run.existingExports, now)
      started == [run EXCEPT !.yearsToExport = years,
                             !.reports = run.exportedReports,
                             !.baseDelay = InitialBaseDelay]
  IN  /\ isExporting' = TRUE
      /\ error' = "null"
      /\ exportedReports' = IF Len(already) > 0 THEN lines ELSE <<>>
      /\ IF Len(years) = 0
         THEN /\ runs' = [runs EXCEPT ![r] = [started EXCEPT !.pc = "timer"]]
              /\ SetMirror(passIfAny(m,
                    existingExportData(run.startYear, run.existingExports, now)))
         ELSE /\ runs' = [runs EXCEPT ![r] = sendRequest(started, 1, 0)]
              /\ SetMirror(m)

\* getExportHistory() of the run resolves.
ListResolved(r) ==
  /\ runs[r].pc = "listing"
  /\ existingExports' = server
  /\ afterLoad(r, [runs[r] EXCEPT !.listOk = TRUE, !.listed = server],
               passIfAny(Mirror, fullYearExports(server, now)))
  /\ UNCHANGED <<probe, ing, csv, svc, agg, dash, server, clock, startYear, mountPc>>

\* getExportHistory() of the run rejects: loadExistingExports reports the
\* error and returns normally.
ListRejected(r, st) ==
  /\ runs[r].pc = "listing"
  /\ afterLoad(r, runs[r], Mirror)
  /\ UNCHANGED <<probe, ing, csv, svc, agg, dash, server, clock, startYear, mountPc, existingExports>>

\* exportHistoryByYear has returned or thrown: its frame is gone.
returned(run) == [run EXCEPT !.retryCount = 0, !.timeTo = Jan1(NoYear)]

\* The end of handleExportHistory without the finally block's reset.
finish_keepsExporting(r, run) ==
  LET pass == allSuccessfulExports(run.reports)
  IN  /\ runs' = [runs EXCEPT ![r] = [run EXCEPT !.pc = "done", !.delayMs = 0, !.passed = pass]]
      /\ SetMirror(passIfAny(Mirror, pass))
      /\ UNCHANGED isExporting

\* The end of handleExportHistory's try block and its finally.
finish(r, run) ==
  LET pass == allSuccessfulExports(run.reports)
  IN  /\ runs' = [runs EXCEPT ![r] = [run EXCEPT !.pc = "done", !.delayMs = 0, !.passed = pass]]
      /\ SetMirror(passIfAny(Mirror, pass))
      /\ isExporting' = FALSE

\* The remote accepts the export request and the loop goes on at once.
ExportAccepted_noDelay(r) ==
  LET run == runs[r]
      year == run.yearsToExport[run.i]
      id == nextReportId
      report == Report(year, id, requestTimeFrom(year), run.timeTo, "exported", "")
      reports == Append(run.reports, report)
      next == [returned(run) EXCEPT !.reports = reports,
                          !.successfulReportIds = Append(run.successfulReportIds, id),
                          !.lastStatus = 200]
  IN  /\ run.pc = "requesting"
      /\ newExports < MaxNewExports
      /\ server' = Append(server,
            Descriptor(id, requestTimeFrom(year), run.timeTo, "Processing", "null"))
      /\ exportedReports' = reports
      /\ IF run.i < Len(run.yearsToExport)
         THEN /\ runs' = [runs EXCEPT ![r] = sendRequest(next, run.i + 1, 0)]
              /\ UNCHANGED <<isExporting, exportData, exportedReportIds, exports, delivered>>
         ELSE finish(r, next)
      /\ UNCHANGED <<probe, ing, csv, svc, agg, dash, clock, startYear, error, existingExports, mountPc>>

\* The remote accepts the export request.
ExportAccepted(r) ==
  LET run == runs[r]
      year == run.yearsToExport[run.i]
      id == nextReportId
      report == Report(year, id, requestTimeFrom(year), run.timeTo, "exported", "")
      reports == Append(run.reports, report)
      next == [returned(run) EXCEPT !.reports = reports,
                          !.successfulReportIds = Append(run.successfulReportIds, id),
                          !.lastStatus = 200]
  IN  /\ run.pc = "requesting"
      /\ newExports < MaxNewExports
      /\ server' = Append(server,
            Descriptor(id, requestTimeFrom(year), run.timeTo, "Processing", "null"))
      /\ exportedReports' = reports
      /\ IF run.i < Len(run.yearsToExport)
         THEN /\ runs' = [runs EXCEPT ![r] =
                    [next EXCEPT !.pc = "delay", !.delayMs = run.baseDelay]]
              /\ UNCHANGED <<isExporting, exportData, exportedReportIds, exports, delivered>>
         ELSE finish(r, next)
      /\ UNCHANGED <<probe, ing, csv, svc, agg, dash, clock, startYear, error, existingExports, mountPc>>

\* The status carried by the error that exportHistoryByYear throws when
\* the request was rejected with status st (0: the error has no response).
thrownStatus(st) == IF st = 429 THEN 0 ELSE st

\* Its message: the one written for 429, else the HTTP client's.
thrownMessage(st) ==
  CASE st = 429 -> "Rate limit exceeded (429)"
    [] st = 401 -> "Request failed with status code 401"
    [] OTHER -> "Request failed with status code 500"

\* The remote rejects the export request with status st.
ExportRejected(r, st) ==
  LET run == runs[r]
      year == run.yearsToExport[run.i]
      seen == [run EXCEPT !.lastStatus = st]
      errorReport == Report(year, 0, Jan1(NoYear), Jan1(NoYear), "failed", thrownMessage(st))
      reports == Append(run.reports, errorReport)
      delayAfter == IF thrownStatus(st) = 429 THEN newDelay(run.baseDelay) ELSE run.baseDelay
  IN  /\ run.pc = "requesting"
      /\ IF st = 429 /\ run.retryCount < MaxRetryCount
         THEN /\ runs' = [runs EXCEPT ![r] =
                    [seen EXCEPT !.pc = "backoff", !.delayMs = backoffDelay(run.retryCount)]]
              /\ UNCHANGED exportedReports
         ELSE /\ runs' = [runs EXCEPT ![r] =
                    [returned(seen) EXCEPT !.pc = "delay", !.reports = reports,
                                 !.baseDelay = delayAfter, !.delayMs = delayAfter]]
              /\ exportedReports' = reports
      /\ UNCHANGED <<probe, ing, csv, svc, agg, dash, server, clock, startYear, isExporting, error, existingExports, mountPc,
                     exportData, exportedReportIds, exports, delivered>>

\* delay(backoffDelay) is over: exportHistoryByYear(year, retryCount + 1).
BackoffElapsed(r) ==
  /\ runs[r].pc = "backoff"
  /\ runs' = [runs EXCEPT ![r] = sendRequest(runs[r], runs[r].i, runs[r].retryCount + 1)]
  /\ UNCHANGED <<probe, ing, csv, svc, agg, dash, server, clock, startYear, isExporting, error, existingExports,
                 exportedReports, mountPc, exportData, exportedReportIds, exports, delivered>>

\* delay(baseDelay) is over: the next turn of the loop, or its end.
DelayElapsed(r) ==
  LET run == runs[r]
  IN  /\ run.pc = "delay"
      /\ IF run.i < Len(run.yearsToExport)
         THEN /\ runs' = [runs EXCEPT ![r] = sendRequest(run, run.i + 1, 0)]
              /\ UNCHANGED <<isExporting, exportData, exportedReportIds, exports, delivered>>
         ELSE finish(r, run)
      /\ UNCHANGED <<probe, ing, csv, svc, agg, dash, server, clock, startYear, error, existingExports, exportedReports, mountPc>>

\* ------------------------------------------------------------- environment
\* A processing job of the remote finishes.  (A job that fails instead
\* stays, like a processing one, outside every finished-only filter.)
JobFinishes(k) ==
  /\ k \in DOMAIN server
  /\ server[k].status = "Processing"
  /\ server' = [server EXCEPT ![k].status = "Finished", ![k].downloadLink = "url"]
  /\ UNCHANGED <<probe, ing, csv, svc, agg, dash, clock, startYear, isExporting, error, existingExports, exportedReports,
                 mountPc, runs, exportData, exportedReportIds, exports, delivered>>

\* Days pass (a step of the clock is days, a run takes minutes: the clock
\* steps between runs).
Tick ==
  /\ clock < MaxClock
  /\ \A r \in DOMAIN runs : runs[r].pc \in {"idle", "done"}
  /\ \E r \in DOMAIN runs : runs[r].pc = "done"
  /\ clock' = clock + 1
  /\ UNCHANGED <<probe, ing, csv, svc, agg, dash, server, startYear, isExporting, error, existingExports, exportedReports,
                 mountPc, runs, exportData, exportedReportIds, exports, delivered>>

Next ==
  \/ \E y \in StartYearInputs : SetStartYear(y)
  \/ MountListResolved
  \/ \E st \in ListErrorStatuses : MountListRejected(st)
  \/ \E r \in RunIds : StartExport(r)
  \/ \E r \in RunIds : ListResolved(r)
  \/ \E r \in RunIds, st \in ListErrorStatuses : ListRejected(r, st)
  \/ \E r \in RunIds : ExportAccepted(r)
  \/ \E r \in RunIds, st \in ErrorStatuses : ExportRejected(r, st)
  \/ \E r \in RunIds : BackoffElapsed(r)
  \/ \E r \in RunIds : DelayElapsed(r)
  \/ \E k \in 1..(MaxInitExports + MaxNewExports) : JobFinishes(k)
  \/ Tick

Spec == Init /\ [][Next]_vars

\* handleExportHistory is suspended at an await: the listing or the export
\* request is in flight, or a delay() timer is running.
Pending(r) == runs[r].pc \in {"listing", "requesting", "backoff", "delay"}

\* The await of run r completes and the handler goes on.
Resumed(r) == Pending(r) /\ runs'[r].pc # runs[r].pc

\* Every request is answered or times out (the HTTP client is created with
\* timeout: 10000) and every setTimeout fires: weak fairness of Resumed(r).
\* This is WF_vars(Resumed(r)) by its definition, with
\* ENABLED <<Resumed(r)>>_vars written as the state predicate it equals,
\* Pending(r).
SpecFair ==
  /\ Spec
  /\ \A r \in RunIds : []<>(~Pending(r)) \/ []<><<Resumed(r)>>_vars

\* ------------------------------------------- two clicks on Start Export
\* The component mounted against a remote that holds one finished export
\* of last year and accepts every request; the user clicks Start Export
\* one time more than in Spec and leaves the start year alone.
OverlapRunIds == 1..(MaxRuns + 1)

InitOverlap ==
  /\ server = <<Descriptor(1, Jan1(CurrentYear - 1), Dec31(CurrentYear - 1, 55), "Finished", "url")>>
  /\ clock = 1
  /\ startYear = CurrentYear - 1
  /\ isExporting = FALSE
  /\ error = "null"
  /\ existingExports = <<>>
  /\ exportedReports = <<>>
  /\ mountPc = "listing"
  /\ runs = [r \in OverlapRunIds |-> IdleRun]
  /\ exportData = <<>>
  /\ exportedReportIds = <<>>
  /\ exports = <<>>
  /\ delivered = {}
  /\ probe = Off
  /\ ing = Off
  /\ csv = Off
  /\ svc = Off
  /\ agg = Off
  /\ dash = Off

NextOverlap ==
  \/ MountListResolved
  \/ \E r \in OverlapRunIds : StartExport(r)
  \/ \E r \in OverlapRunIds : ListResolved(r)
  \/ \E r \in OverlapRunIds : ExportAccepted(r)
  \/ \E r \in OverlapRunIds : DelayElapsed(r)
  \/ \E k \in 1..(1 + MaxNewExports) : JobFinishes(k)

SpecOverlap == InitOverlap /\ [][NextOverlap]_vars

\* ------------------------------------------- the year predicate on its own
\* The orchestrator before anything happened, against an empty remote.
OrchAtRest ==
  /\ server = <<>>
  /\ clock = 1
  /\ startYear = CurrentYear - 1
  /\ isExporting = FALSE
  /\ error = "null"
  /\ existingExports = <<>>
  /\ exportedReports = <<>>
  /\ mountPc = "listing"
  /\ runs = [r \in RunIds |-> IdleRun]
  /\ exportData = <<>>
  /\ exportedReportIds = <<>>
  /\ exports = <<>>
  /\ delivered = {}

\* timeFrom values of a listed descriptor: the start of a year, and near it.
FromInputs ==
  { TS(y, t[1], t[2], 0, 0, t[3]) :
      y \in {CurrentYear - 1, CurrentYear},
      t \in {<<0, 1, 0>>, <<0, 1, 1>>, <<0, 2, 0>>, <<1, 1, 0>>} }

\* timeTo values of a listed descriptor: the end of a year, and before it.
ToInputs ==
  { TS(y, t[1], t[2], t[3], t[4], t[5]) :
      y \in {CurrentYear - 1, CurrentYear},
      t \in {<<11, 31, 23, 59, 54>>, <<11, 31, 23, 59, 55>>, <<11, 31, 23, 59, 59>>,
             <<11, 31, 0, 0, 0>>, <<11, 30, 23, 59, 59>>, <<5, 30, 12, 0, 0>>} }

StatusInputs == {"Finished", "Processing", "Failed"}

InitYear ==
  /\ OrchAtRest
  /\ \E from \in FromInputs, to \in ToInputs, st \in StatusInputs :
       probe = [pc |-> "listed", exp |-> Descriptor(1, from, to, st, "url")]
  /\ ing = Off
  /\ csv = Off
  /\ svc = Off
  /\ agg = Off
  /\ dash = Off

\* getExistingYearsCovered on a list of this one descriptor.
AnalyzeCoverage ==
  /\ probe.pc = "listed"
  /\ probe' = [pc |-> "analyzed", exp |-> probe.exp,
               yearResult |-> IF isFinished(probe.exp)
                              THEN getYearFromTimeRange(probe.exp.timeFrom, probe.exp.timeTo, now)
                              ELSE [ok |-> FALSE, year |-> NoYear, isOutdated |-> FALSE],
               years |-> coveredYears(<<probe.exp>>, now)]
  /\ UNCHANGED <<orchVars, ing, csv, svc, agg, dash>>

NextYear == AnalyzeCoverage

SpecYear == InitYear /\ [][NextYear]_vars

\* ------------------------------------- HistoryDownload: ingestion (data)
\* A CSV row as ingestion sees it: its Time column and where it came from.
\* Time is "" (missing or empty), a timestamp, or text that new Date()
\* cannot parse.
Row(time, line) == [Time |-> time, line |-> line]

\* The timestamps in play, in their order in time.
Timestamps == <<"2021-01-05 09:00:00", "2021-02-05 09:00:00", "2021-03-05 09:00:00">>

\* Texts that a download link may serve, as the rows parseCsv makes of them.
CsvTexts ==
  { <<>>,
    <<Row(Timestamps[1], 1)>>,
    <<Row(Timestamps[2], 1), Row(Timestamps[2], 2)>>,
    <<Row(Timestamps[3], 1), Row("", 2)>>,
    <<Row("n/a", 1), Row(Timestamps[1], 2)>> }

\* a.Time && b.Time: a non-empty string is truthy.
truthy(time) == time # ""

\* new Date(time) is an invalid date (its value is NaN).
isNaN(time) == \A j \in DOMAIN Timestamps : Timestamps[j] # time

\* The value of new Date(time), for a valid date.
dateValue(time) == CHOOSE j \in DOMAIN Timestamps : Timestamps[j] = time

\* The sort's comparator, as the sort reads it: NaN counts as +0.
compareByTime(a, b) ==
  IF truthy(a.Time) /\ truthy(b.Time) /\ ~isNaN(a.Time) /\ ~isNaN(b.Time)
  THEN dateValue(a.Time) - dateValue(b.Time)
  ELSE 0

\* A consistent comparator for the elements of s (ECMAScript, Array.prototype.sort):
\* "equal" and "before" are transitive and agree with each other.
consistentComparator(s) ==
  \A a, b, c \in SeqToSet(s) :
    /\ (compareByTime(a, b) = 0 /\ compareByTime(b, c) = 0) => compareByTime(a, c) = 0
    /\ (compareByTime(a, b) < 0 /\ compareByTime(b, c) < 0) => compareByTime(a, c) < 0
    /\ (compareByTime(a, b) = 0 /\ compareByTime(b, c) < 0) => compareByTime(a, c) < 0
    /\ (compareByTime(a, b) < 0 /\ compareByTime(b, c) = 0) => compareByTime(a, c) < 0

\* The stable sort of s under the comparator.
RECURSIVE insertSorted(_, _)
insertSorted(s, x) ==
  IF s = <<>> THEN <<x>>
  ELSE IF compareByTime(s[Len(s)], x) > 0
       THEN Append(insertSorted(SubSeq(s, 1, Len(s) - 1), x), s[Len(s)])
       ELSE Append(s, x)

RECURSIVE stableSort(_)
stableSort(s) ==
  IF s = <<>> THEN <<>>
  ELSE insertSorted(stableSort(SubSeq(s, 1, Len(s) - 1)), s[Len(s)])

\* The orders of s.
permutations(s) ==
  { [j \in DOMAIN s |-> s[f[j]]] :
      f \in { g \in [DOMAIN s -> DOMAIN s] : \A a, b \in DOMAIN s : a # b => g[a] # g[b] } }

\* allCsvData.sort(comparator): the stable sorted order when the comparator
\* is consistent for the rows, and an implementation-defined order of them
\* when it is not.
sortOutcomes(s) ==
  IF consistentComparator(s) THEN {stableSort(s)} ELSE permutations(s)

\* csvRows.map(row => ({...row, reportId, reportTimeFrom, reportTimeTo}))
enhancedRows(csvRows, exportItem) ==
  [j \in DOMAIN csvRows |->
     [Time |-> csvRows[j].Time, line |-> csvRows[j].line, reportId |-> exportItem.reportId]]

readyForDownload_anyFinished(exp) == isFinished(exp)

\* exp.status?.toLowerCase() === 'finished' && exp.downloadLink
readyForDownload(exp) == isFinished(exp) /\ exp.downloadLink # "null"

isProcessing_never(exp) == FALSE

isProcessing(exp) == toLowerCase(exp.status) = "processing"

\* ---------------------------------- HistoryDownload: processCsvData
\* Descriptors that the list given to processCsvData may hold.
IngestIds == 1..MaxExportsList

IngestDescriptors(id) ==
  { Descriptor(id, Jan1(CurrentYear - id), Dec31(CurrentYear - id, 55), st, link) :
      st \in {"Finished", "Processing", "Failed"}, link \in {"url", "null"} }

ExportsLists ==
  { s \in UNION { [1..n -> UNION {IngestDescriptors(id) : id \in IngestIds}] : n \in 0..MaxExportsList } :
      \A j \in DOMAIN s : s[j].reportId = j }

\* The component's reportIds prop.
ReportIdsInputs == { {}, {1}, IngestIds }

\* The two HistoryDownload components: the one that waits for processing
\* exports (part_002) and the one fed by exportData (part_003).
Variants == {"part_002", "part_003"}

\* What one status poll can see of the export it waits for.
PollAnswers == {"processing", "finished", "failed", "missing", "rejected"}

NewIngest(variant, reportIds, exportDataEmpty, exportsList) ==
  [pc |-> "called", variant |-> variant, reportIds |-> reportIds,
   exportDataEmpty |-> exportDataEmpty, exportsList |-> exportsList,
   targetExports |-> <<>>, t |-> 0, attempt |-> 0, updatedExports |-> <<>>,
   finishedExports |-> <<>>, f |-> 0, allCsvData |-> <<>>,
   result |-> <<>>, loaded |-> <<>>, error |-> "null",
   lastPoll |-> [id \in IngestIds |-> "none"],
   delayMs |-> 0, fetched |-> {}, parsed |-> <<>>, failed |-> {}]

InitIngest ==
  /\ OrchAtRest
  /\ probe = Off
  /\ csv = Off
  /\ svc = Off
  /\ agg = Off
  /\ dash = Off
  /\ \E variant \in Variants, reportIds \in ReportIdsInputs, exportDataEmpty \in BOOLEAN,
        exportsList \in ExportsLists :
       /\ variant = "part_002" => exportDataEmpty
       /\ ing = NewIngest(variant, reportIds, exportDataEmpty, exportsList)

\* The rest of the try block after the download loop: sort, hand over.
finalize(st, sorted) ==
  [st EXCEPT !.pc = "done", !.result = sorted,
             !.loaded = IF Len(sorted) > 0 THEN sorted ELSE <<>>]

\* for (const exportItem of finishedExports): the next proxy fetch leaves,
\* or the loop is over.
fetchFrom(st, f) ==
  IF f <= Len(st.finishedExports)
  THEN [st EXCEPT !.pc = "fetch", !.f = f,
                  !.fetched = st.fetched \cup {st.finishedExports[f].reportId}]
  ELSE [st EXCEPT !.pc = "sorting", !.f = f]

\* updatedExports.filter(finished with a download link), then the loop.
beginFetch(st) ==
  fetchFrom([st EXCEPT !.finishedExports = SelectSeq(st.updatedExports, readyForDownload)], 1)

\* for (const exportItem of targetExports): push the ones that are not
\* processing, stop at the first status poll to make.
RECURSIVE pollFrom(_, _)
pollFrom(st, t) ==
  IF t > Len(st.targetExports) THEN beginFetch([st EXCEPT !.t = t])
  ELSE IF isProcessing(st.targetExports[t])
       THEN [st EXCEPT !.pc = "poll", !.t = t, !.attempt = 1]
       ELSE pollFrom([st EXCEPT !.updatedExports = Append(st.updatedExports, st.targetExports[t])],
                     t + 1)

\* The step ends in st; a finished download loop is followed by the sort.
settle(st) ==
  IF st.pc = "sorting"
  THEN \E sorted \in sortOutcomes(st.allCsvData) : ing' = finalize(st, sorted)
  ELSE ing' = st

\* processCsvData(exportsList) up to its first await.
StartIngest ==
  /\ ing.pc = "called"
  /\ LET byIds == \/ ing.variant = "part_002"
                  \/ ing.reportIds # {} /\ ing.exportDataEmpty
         target == IF byIds
                   THEN SelectSeq(ing.exportsList, LAMBDA exp : exp.reportId \in ing.reportIds)
                   ELSE ing.exportsList
         st == [ing EXCEPT !.targetExports = target]
     IN  IF ing.variant = "part_002"
         THEN settle(pollFrom(st, 1))
         ELSE settle(beginFetch([st EXCEPT !.updatedExports = target]))
  /\ UNCHANGED <<orchVars, probe, csv, svc, agg, dash>>

\* waitForExportCompletion(reportId): the listing of attempt `attempt`
\* answers.  An export that is finished comes back with its download link;
\* every other end throws, and processCsvData keeps the original item.
PollAnswered(ans) ==
  /\ ing.pc = "poll"
  /\ LET exp == ing.targetExports[ing.t]
         seen == [ing EXCEPT !.lastPoll[exp.reportId] = ans, !.attempt = 0, !.delayMs = 0]
         completed == Descriptor(exp.reportId, exp.timeFrom, exp.timeTo, "Finished", "url")
         push(item) == pollFrom([seen EXCEPT !.updatedExports = Append(ing.updatedExports, item)],
                                ing.t + 1)
     IN  CASE ans = "finished" -> settle(push(completed))
           [] ans \in {"failed", "missing", "rejected"} -> settle(push(exp))
           [] OTHER ->
                IF ing.attempt < MaxAttempts
                THEN ing' = [ing EXCEPT !.pc = "pollWait", !.lastPoll[exp.reportId] = ans,
                                        !.delayMs = PollDelayMs]
                ELSE settle(push(exp))
  /\ UNCHANGED <<orchVars, probe, csv, svc, agg, dash>>

\* await delay(delayMs) is over: the next attempt.
PollWaitElapsed ==
  /\ ing.pc = "pollWait"
  /\ ing' = [ing EXCEPT !.pc = "poll", !.attempt = ing.attempt + 1, !.delayMs = 0]
  /\ UNCHANGED <<orchVars, probe, csv, svc, agg, dash>>

\* fetchCsvThroughProxy and parseCsv succeed for the item being downloaded.
FetchParsed(csvRows) ==
  /\ ing.pc = "fetch"
  /\ LET exportItem == ing.finishedExports[ing.f]
         rows == enhancedRows(csvRows, exportItem)
     IN  settle(fetchFrom([ing EXCEPT !.allCsvData = ing.allCsvData \o rows,
                                      !.parsed = Append(ing.parsed, rows)],
                          ing.f + 1))
  /\ UNCHANGED <<orchVars, probe, csv, svc, agg, dash>>

FetchFailed_aborts(why) ==
  /\ ing.pc = "fetch"
  /\ ing' = [ing EXCEPT !.pc = "done", !.error = "csvFailed",
                        !.failed = ing.failed \cup {ing.finishedExports[ing.f].reportId}]
  /\ UNCHANGED <<orchVars, probe, csv, svc, agg, dash>>

\* The proxy fetch fails (HTTP status not ok, or no answer), or parseCsv
\* throws: the catch inside the download loop logs it.
FetchFailed(why) ==
  /\ ing.pc = "fetch"
  /\ LET exportItem == ing.finishedExports[ing.f]
     IN  settle(fetchFrom([ing EXCEPT !.failed = ing.failed \cup {exportItem.reportId}],
                          ing.f + 1))
  /\ UNCHANGED <<orchVars, probe, csv, svc, agg, dash>>

NextIngest ==
  \/ StartIngest
  \/ \E ans \in PollAnswers : PollAnswered(ans)
  \/ PollWaitElapsed
  \/ \E csvRows \in CsvTexts : FetchParsed(csvRows)
  \/ \E why \in {"fetch", "parse"} : FetchFailed(why)

SpecIngest == InitIngest /\ [][NextIngest]_vars

\* ------------------------------------------ HistoryDownload: parseCsv
\* Text is a sequence of one-character strings.
\* String.prototype.trim, for the blank of the alphabet.
RECURSIVE trimStart(_)
trimStart(s) == IF s # <<>> /\ Head(s) = " " THEN trimStart(Tail(s)) ELSE s

RECURSIVE trimEnd(_)
trimEnd(s) ==
  IF s # <<>> /\ s[Len(s)] = " " THEN trimEnd(SubSeq(s, 1, Len(s) - 1)) ELSE s

trim(s) == trimEnd(trimStart(s))

\* parseCSVLine before its loop: result, current, inQuotes, and i (from 1).
NewScan(line) ==
  [line |-> line, i |-> 1, current |-> <<>>, inQuotes |-> FALSE, result |-> <<>>]

step_noEscape(st) ==
  LET char == st.line[st.i]
  IN  IF char = "\""
      THEN [st EXCEPT !.inQuotes = ~st.inQuotes, !.i = st.i + 1]
      ELSE IF char = "," /\ ~st.inQuotes
           THEN [st EXCEPT !.result = Append(st.result, trim(st.current)),
                           !.current = <<>>, !.i = st.i + 1]
           ELSE [st EXCEPT !.current = Append(st.current, char), !.i = st.i + 1]

\* One iteration of the loop over the characters of the line.
step(st) ==
  LET char == st.line[st.i]
  IN  IF char = "\""
      THEN IF st.inQuotes /\ st.i + 1 <= Len(st.line) /\ st.line[st.i + 1] = "\""
           THEN [st EXCEPT !.current = Append(st.current, "\""), !.i = st.i + 2]
           ELSE [st EXCEPT !.inQuotes = ~st.inQuotes, !.i = st.i + 1]
      ELSE IF char = "," /\ ~st.inQuotes
           THEN [st EXCEPT !.result = Append(st.result, trim(st.current)),
                           !.current = <<>>, !.i = st.i + 1]
           ELSE [st EXCEPT !.current = Append(st.current, char), !.i = st.i + 1]

\* result.push(current.trim()); return result
lastField(st) == Append(st.result, trim(st.current))

RECURSIVE scan(_)
scan(st) == IF st.i > Len(st.line) THEN lastField(st) ELSE scan(step(st))

parseCSVLine(line) == scan(NewScan(line))

\* The first line of the CSV text of the example.
HeaderLine == <<"x", ",", "y", ",", "z">>

headers == parseCSVLine(HeaderLine)

\* The line "a,b",c,"d""e"
ExampleLine ==
  <<"\"", "a", ",", "b", "\"", ",", "c", ",", "\"", "d", "\"", "\"", "e", "\"">>

Alphabet == {"a", ",", "\"", " "}

\* const line = lines[i].trim(); blank lines are filtered out or skipped.
CsvLines ==
  {ExampleLine} \cup
  { l \in UNION { [1..n -> Alphabet] : n \in 1..MaxLineLen } : trim(l) = l }

\* headers.forEach((header, index) => row[header] = values[index] || '')
makeRow(hdrs, values) ==
  [header \in SeqToSet(hdrs) |->
     LET index == CHOOSE k \in DOMAIN hdrs :
                    /\ hdrs[k] = header
                    /\ \A m \in DOMAIN hdrs : hdrs[m] = header => m <= k
     IN  IF index <= Len(values) THEN values[index] ELSE <<>>]

columnsFit_exact(hdrs, values) == Len(values) = Len(hdrs)

\* Math.abs(values.length - headers.length) <= 2
columnsFit(hdrs, values) ==
  /\ Len(values) - Len(hdrs) <= 2
  /\ Len(hdrs) - Len(values) <= 2

InitCsv ==
  /\ OrchAtRest
  /\ probe = Off
  /\ ing = Off
  /\ svc = Off
  /\ agg = Off
  /\ dash = Off
  /\ \E line \in CsvLines :
       csv = [pc |-> "scan", scanner |-> NewScan(line), values |-> <<>>, rows |-> <<>>]

\* for (let i = 0; i < line.length; i++) { ... }: one character, or the
\* two of an escaped quote.
ScanChar ==
  /\ csv.pc = "scan"
  /\ csv.scanner.i <= Len(csv.scanner.line)
  /\ csv' = [csv EXCEPT !.scanner = step(csv.scanner)]
  /\ UNCHANGED <<orchVars, probe, ing, svc, agg, dash>>

\* The loop is over: the last field is added and parseCSVLine returns.
EndOfLine ==
  /\ csv.pc = "scan"
  /\ csv.scanner.i > Len(csv.scanner.line)
  /\ csv' = [csv EXCEPT !.pc = "values", !.values = lastField(csv.scanner)]
  /\ UNCHANGED <<orchVars, probe, ing, svc, agg, dash>>

\* The row is built when the column count fits, else the line is skipped.
BuildRow ==
  /\ csv.pc = "values"
  /\ csv' = IF columnsFit(headers, csv.values)
            THEN [csv EXCEPT !.pc = "row", !.rows = <<makeRow(headers, csv.values)>>]
            ELSE [csv EXCEPT !.pc = "skipped"]
  /\ UNCHANGED <<orchVars, probe, ing, svc, agg, dash>>

NextCsv == ScanChar \/ EndOfLine \/ BuildRow

SpecCsv == InitCsv /\ [][NextCsv]_vars

\* parseCsv on a whole text, line by line.  A text is its sequence of
\* lines (csvText.split('\n')); the first one holds the column names.
HeaderLines == {HeaderLine, <<"x">>}

RawLines == UNION { [1..n -> Alphabet] : n \in 0..MaxLineLen }

InitParse ==
  /\ OrchAtRest
  /\ probe = Off
  /\ ing = Off
  /\ svc = Off
  /\ agg = Off
  /\ dash = Off
  /\ \E header \in HeaderLines, n \in 0..MaxDataLines :
       \E data \in [1..n -> RawLines] :
         csv = [pc |-> "text", text |-> <<header>> \o data, lines |-> <<>>, hdrs |-> <<>>,
                k |-> 0, rows |-> <<>>, skippedRows |-> 0]

\* split, filter(line => line.trim()), the early return for fewer than two
\* lines, and the header line.
StartParse ==
  /\ csv.pc = "text"
  /\ LET lines == SelectSeq(csv.text, LAMBDA line : trim(line) # <<>>)
     IN  csv' = IF Len(lines) < 2
                THEN [csv EXCEPT !.pc = "parsed", !.lines = lines]
                ELSE [csv EXCEPT !.pc = "rows", !.lines = lines,
                                 !.hdrs = parseCSVLine(lines[1]), !.k = 2]
  /\ UNCHANGED <<orchVars, probe, ing, svc, agg, dash>>

\* One iteration of for (let i = 1; i < lines.length; i++).
ParseLine ==
  /\ csv.pc = "rows"
  /\ LET line == trim(csv.lines[csv.k])
         values == parseCSVLine(line)
         accepted == line # <<>> /\ columnsFit(csv.hdrs, values)
     IN  csv' = [csv EXCEPT
                   !.rows = IF accepted THEN Append(@, makeRow(csv.hdrs, values)) ELSE @,
                   !.skippedRows = IF accepted THEN @ ELSE @ + 1,
                   !.k = @ + 1,
                   !.pc = IF csv.k = Len(csv.lines) THEN "parsed" ELSE "rows"]
  /\ UNCHANGED <<orchVars, probe, ing, svc, agg, dash>>

NextParse == StartParse \/ ParseLine

SpecParse == InitParse /\ [][NextParse]_vars


\* ------------------------------------------------ Trading212Service
\* The bodies a 2xx answer of /equity/account/cash can carry ("" is an
\* empty body) and the data of the development mock mode.
ResponseData == {"cashA", "cashB", ""}
mockData == "mockCash"

\* this.cachedData = null after the cached data was handed out
afterCacheHit_kept(data) == data

afterCacheHit(data) == "null"

\* if (this.cachedData)
cacheUsable(cachedData) == cachedData \notin {"null", ""}

\* constructor(apiKey); mock is import.meta.env.DEV && apiKey === 'test123'.
\* verified is the data of the last successful verification that no later
\* getAccountCash call has followed.
InitService ==
  /\ OrchAtRest
  /\ probe = Off
  /\ ing = Off
  /\ csv = Off
  /\ agg = Off
  /\ dash = Off
  /\ \E mock \in BOOLEAN :
       svc = [mock |-> mock, cachedData |-> "null", calls |-> <<>>, requests |-> 0,
              verified |-> "none"]

\* verifyApiKey() up to its first await: the mock timer or the GET.
VerifyApiKey ==
  /\ Len(svc.calls) < MaxCalls
  /\ svc' = [svc EXCEPT
               !.calls = Append(@, [op |-> "verifyApiKey", pc |-> "awaiting", ret |-> "none",
                                    network |-> ~svc.mock]),
               !.requests = IF svc.mock THEN @ ELSE @ + 1]
  /\ UNCHANGED <<orchVars, probe, ing, csv, agg, dash>>

\* The await of verifyApiKey is over: the data is cached and success is
\* returned, or the catch returns success: false.
VerifyAnswered(c, ok, data) ==
  /\ c \in DOMAIN svc.calls
  /\ svc.calls[c].op = "verifyApiKey"
  /\ svc.calls[c].pc = "awaiting"
  /\ svc.mock => (ok /\ data = mockData)
  /\ ~svc.mock => data \in ResponseData
  /\ svc' = IF ok
            THEN [svc EXCEPT !.cachedData = data, !.verified = data,
                             !.calls[c].pc = "done", !.calls[c].ret = data]
            ELSE [svc EXCEPT !.calls[c].pc = "done", !.calls[c].ret = "failed"]
  /\ UNCHANGED <<orchVars, probe, ing, csv, agg, dash>>

\* getAccountCash() up to its first await, or to its return from the cache.
GetAccountCash ==
  /\ Len(svc.calls) < MaxCalls
  /\ svc' = IF svc.mock
            THEN [svc EXCEPT !.verified = "none",
                    !.calls = Append(@, [op |-> "getAccountCash", pc |-> "awaiting",
                                         ret |-> "none", network |-> FALSE])]
            ELSE IF cacheUsable(svc.cachedData)
            THEN [svc EXCEPT !.verified = "none",
                    !.cachedData = afterCacheHit(svc.cachedData),
                    !.calls = Append(@, [op |-> "getAccountCash", pc |-> "done",
                                         ret |-> svc.cachedData, network |-> FALSE])]
            ELSE [svc EXCEPT !.verified = "none",
                    !.requests = @ + 1,
                    !.calls = Append(@, [op |-> "getAccountCash", pc |-> "awaiting",
                                         ret |-> "none", network |-> TRUE])]
  /\ UNCHANGED <<orchVars, probe, ing, csv, agg, dash>>

\* The await of getAccountCash is over: the data is returned, or the catch
\* rethrows.
CashAnswered(c, ok, data) ==
  /\ c \in DOMAIN svc.calls
  /\ svc.calls[c].op = "getAccountCash"
  /\ svc.calls[c].pc = "awaiting"
  /\ svc.mock => (ok /\ data = mockData)
  /\ ~svc.mock => data \in ResponseData
  /\ svc' = [svc EXCEPT !.calls[c].pc = "done",
                        !.calls[c].ret = IF ok THEN data ELSE "threw"]
  /\ UNCHANGED <<orchVars, probe, ing, csv, agg, dash>>

NextService ==
  \/ VerifyApiKey
  \/ \E c \in 1..MaxCalls, ok \in BOOLEAN, data \in ResponseData \cup {mockData} :
       VerifyAnswered(c, ok, data)
  \/ GetAccountCash
  \/ \E c \in 1..MaxCalls, ok \in BOOLEAN, data \in ResponseData \cup {mockData} :
       CashAnswered(c, ok, data)

SpecService == InitService /\ [][NextService]_vars

\* ------------------------------------- DividendAnalysis: analyzeDividends
\* An Action is its sequence of words; the empty sequence is a row without
\* Action.  toLowerCase on the words in play.
lowerWord(w) ==
  CASE w \in {"Dividend", "DIVIDEND"} -> "dividend"
    [] w = "Tax" -> "tax"
    [] w = "Exempted" -> "exempted"
    [] w = "Manufactured" -> "manufactured"
    [] w = "Market" -> "market"
    [] w = "Limit" -> "limit"
    [] w = "Buy" -> "buy"
    [] OTHER -> w

\* action.toLowerCase().includes(phrase), for a phrase of whole words.
includes(action, phrase) ==
  \E at \in 0..(Len(action) - Len(phrase)) :
    \A j \in DOMAIN phrase : lowerWord(action[at + j]) = phrase[j]

\* parseFloat(text) || 0 on the amounts in play.
parseFloat(text) ==
  CASE text = "10" -> 10
    [] text = "5" -> 5
    [] text = "3" -> 3
    [] OTHER -> 0

isDividend_caseSensitive(transaction) ==
  \E j \in DOMAIN transaction.Action : transaction.Action[j] = "dividend"

\* transaction.Action && transaction.Action.toLowerCase().includes('dividend')
isDividend(transaction) ==
  transaction.Action # <<>> /\ includes(transaction.Action, <<"dividend">>)

dividendType(action) ==
  IF includes(action, <<"manufactured", "payment">>) THEN "Manufactured Payment"
  ELSE IF includes(action, <<"tax", "exempted">>) THEN "Tax Exempted"
  ELSE "Regular Dividend"

\* <DividendAnalysis csvData={...}/>: analyzeDividends is called.
InitDividends ==
  /\ OrchAtRest
  /\ probe = Off
  /\ ing = Off
  /\ csv = Off
  /\ svc = Off
  /\ dash = Off
  /\ LET actions == { <<"Dividend">>, <<"Dividend", "Tax", "Exempted">>,
                      <<"Dividend", "Dividend", "manufactured", "payment">>,
                      <<"DIVIDEND", "tax", "exempted", "manufactured", "payment">>,
                      <<"Market", "buy">>, <<"Manufactured", "payment">>, <<>> }
         rows == [Action : actions, Total : {"10", "5", "3", "abc"}, Ticker : {"AAPL", "MSFT", ""}]
     IN  \E n \in 0..MaxTransactions :
           \E csvData \in [1..n -> rows] :
             agg = [pc |-> "called", csvData |-> csvData, dividendTransactions |-> <<>>,
                    index |-> 0, totalDividends |-> 0, dividendDetails |-> <<>>,
                    dividendsByStock |-> <<>>, dividendsByType |-> <<>>, result |-> "none"]

\* The empty-input return, the filter, and the return for no dividend row.
\* dividendsByStock and dividendsByType are keyed objects, held as Maps.
FilterDividends ==
  /\ agg.pc = "called"
  /\ LET dividendTransactions == SelectSeq(agg.csvData, isDividend)
         empty == [totalDividends |-> 0, dividendCount |-> 0, dividendDetails |-> <<>>,
                   dividendsByStock |-> <<>>, dividendsByType |-> <<>>]
     IN  agg' = IF Len(agg.csvData) = 0 \/ Len(dividendTransactions) = 0
                THEN [agg EXCEPT !.pc = "done", !.result = empty,
                                 !.dividendTransactions = dividendTransactions]
                ELSE [agg EXCEPT !.pc = "forEach", !.index = 1,
                                 !.dividendTransactions = dividendTransactions]
  /\ UNCHANGED <<orchVars, probe, ing, csv, svc, dash>>

\* One call of the forEach callback.  The groupings by month and by year,
\* which read only Time, are not part of the model.
ProcessDividend ==
  /\ agg.pc = "forEach"
  /\ agg.index <= Len(agg.dividendTransactions)
  /\ LET transaction == agg.dividendTransactions[agg.index]
         amount == parseFloat(transaction.Total)
         ticker == IF transaction.Ticker = "" THEN "Unknown" ELSE transaction.Ticker
         type == dividendType(transaction.Action)
         stock == IF MapHas(agg.dividendsByStock, ticker)
                  THEN MapGet(agg.dividendsByStock, ticker)
                  ELSE [total |-> 0, count |-> 0, byType |-> <<>>]
         stockType == IF MapHas(stock.byType, type) THEN MapGet(stock.byType, type)
                      ELSE [total |-> 0, count |-> 0]
         byType == IF MapHas(agg.dividendsByType, type)
                   THEN MapGet(agg.dividendsByType, type)
                   ELSE [total |-> 0, count |-> 0, stocks |-> {}]
     IN  agg' = [agg EXCEPT
                   !.index = @ + 1,
                   !.totalDividends = @ + amount,
                   !.dividendDetails = Append(@, [ticker |-> ticker, amount |-> amount,
                                                  type |-> type, originalIndex |-> agg.index - 1]),
                   !.dividendsByStock =
                      MapSet(@, ticker,
                             [total |-> stock.total + amount, count |-> stock.count + 1,
                              byType |-> MapSet(stock.byType, type,
                                                [total |-> stockType.total + amount,
                                                 count |-> stockType.count + 1])]),
                   !.dividendsByType =
                      MapSet(@, type, [total |-> byType.total + amount,
                                       count |-> byType.count + 1,
                                       stocks |-> byType.stocks \cup {ticker}])]
  /\ UNCHANGED <<orchVars, probe, ing, csv, svc, dash>>

\* After the loop: uniqueStocks replaces the Set of each type, and the
\* analysis is returned.
ReturnDividends ==
  /\ agg.pc = "forEach"
  /\ agg.index > Len(agg.dividendTransactions)
  /\ agg' = [agg EXCEPT
               !.pc = "done",
               !.result =
                  [totalDividends |-> agg.totalDividends,
                   dividendCount |-> Len(agg.dividendTransactions),
                   dividendDetails |-> agg.dividendDetails,
                   dividendsByStock |-> agg.dividendsByStock,
                   dividendsByType |->
                     [j \in DOMAIN agg.dividendsByType |->
                        [k |-> agg.dividendsByType[j].k,
                         v |-> [total |-> agg.dividendsByType[j].v.total,
                                count |-> agg.dividendsByType[j].v.count,
                                uniqueStocks |-> Cardinality(agg.dividendsByType[j].v.stocks)]]]]]
  /\ UNCHANGED <<orchVars, probe, ing, csv, svc, dash>>

NextDividends == FilterDividends \/ ProcessDividend \/ ReturnDividends

SpecDividends == InitDividends /\ [][NextDividends]_vars

\* ------------------------------ StockTradingAnalysis: analyzeTradingData
tradingActions ==
  { <<"market", "buy">>, <<"limit", "buy">>, <<"market", "sell">>, <<"limit", "sell">>,
    <<"stop", "buy">>, <<"stop", "sell">> }

\* parseFloat(transaction['No. of shares']) || 0 on the share counts in
\* play, in units of 0.00001 share.
parseShares(text) ==
  CASE text = "1" -> 100000
    [] text = "0.99995" -> 99995
    [] text = "0.00005" -> 5
    [] OTHER -> 0

\* <StockTradingAnalysis csvData={...}/>: analyzeTradingData is called.
InitTrading ==
  /\ OrchAtRest
  /\ probe = Off
  /\ ing = Off
  /\ csv = Off
  /\ svc = Off
  /\ dash = Off
  /\ LET actions == { <<"Market", "buy">>, <<"Market", "Buy">>, <<"Limit", "sell">>,
                      <<"Dividend">> }
         rows == [Action : actions, shares : {"1", "0.99995", "0.00005", "abc"},
                  Total : {"10"}, Ticker : {"AAPL", ""}]
     IN  \E n \in 0..MaxTransactions :
           \E csvData \in [1..n -> rows] :
             agg = [pc |-> "called", csvData |-> csvData, tradingTransactions |-> <<>>,
                    index |-> 0, positions |-> <<>>, totalInvested |-> 0,
                    totalRealized |-> 0, result |-> "none"]

\* The empty-input return and the filter on the trading actions.
FilterTrades ==
  /\ agg.pc = "called"
  /\ LET lower(action) == [j \in DOMAIN action |-> lowerWord(action[j])]
         tradingTransactions ==
           SelectSeq(agg.csvData,
                     LAMBDA transaction : /\ transaction.Action # <<>>
                                          /\ lower(transaction.Action) \in tradingActions)
     IN  agg' = IF Len(agg.csvData) = 0
                THEN [agg EXCEPT !.pc = "done", !.result = [positions |-> <<>>]]
                ELSE [agg EXCEPT !.pc = "forEach", !.index = 1,
                                 !.tradingTransactions = tradingTransactions]
  /\ UNCHANGED <<orchVars, probe, ing, csv, svc, dash>>

\* One call of the forEach callback: the totals and the position of the
\* ticker.  The monthly activity, the realized gains and losses, the
\* average buy price and the trade lists are not part of the model.
ProcessTrade ==
  /\ agg.pc = "forEach"
  /\ agg.index <= Len(agg.tradingTransactions)
  /\ LET transaction == agg.tradingTransactions[agg.index]
         isBuy == includes(transaction.Action, <<"buy">>)
         isSell == includes(transaction.Action, <<"sell">>)
         ticker == IF transaction.Ticker = "" THEN "Unknown" ELSE transaction.Ticker
         shares == parseShares(transaction.shares)
         total == parseFloat(transaction.Total)
         position == IF MapHas(agg.positions, ticker)
                     THEN MapGet(agg.positions, ticker)
                     ELSE [totalShares |-> 0, totalInvested |-> 0, totalSold |-> 0,
                           isOpen |-> FALSE]
         after == IF isBuy
                  THEN [position EXCEPT !.totalShares = @ + shares,
                                        !.totalInvested = @ + total,
                                        !.isOpen = position.totalShares + shares > 0]
                  ELSE IF isSell
                  THEN [position EXCEPT !.totalShares = @ - shares,
                                        !.totalSold = @ + total,
                                        !.isOpen = position.totalShares - shares > Tolerance]
                  ELSE position
     IN  agg' = [agg EXCEPT
                   !.index = @ + 1,
                   !.totalInvested = IF isBuy THEN @ + total ELSE @,
                   !.totalRealized = IF ~isBuy /\ isSell THEN @ + total ELSE @,
                   !.positions = MapSet(@, ticker, after)]
  /\ UNCHANGED <<orchVars, probe, ing, csv, svc, dash>>

\* After the loop the analysis is returned with the positions.
ReturnTrading ==
  /\ agg.pc = "forEach"
  /\ agg.index > Len(agg.tradingTransactions)
  /\ agg' = [agg EXCEPT !.pc = "done", !.result = [positions |-> agg.positions]]
  /\ UNCHANGED <<orchVars, probe, ing, csv, svc, dash>>

NextTrading == FilterTrades \/ ProcessTrade \/ ReturnTrading

SpecTrading == InitTrading /\ [][NextTrading]_vars

\* ------------------------- Dashboard with HistoryDownload: ingestions
\* JSON.stringify(exportData.map(e => ({id, timeTo}))) of the export data
\* in play: two values of exportData differ in signature or only in
\* identity.
Signatures == {"sigA", "sigB"}

\* Dashboard and HistoryDownload are mounted; exportData is [].
InitDash ==
  /\ OrchAtRest
  /\ probe = Off
  /\ ing = Off
  /\ csv = Off
  /\ svc = Off
  /\ agg = Off
  /\ dash = [exportData |-> "empty", changes |-> 0, lastProcessedExportData |-> "null",
             ingestions |-> <<>>, csvData |-> "empty"]

\* handleExportComplete sets a new exportData array; the effect of
\* HistoryDownload runs and calls processCsvData unless the signature is the
\* one last processed.  processCsvData makes the same test and runs up to
\* its first await.
ExportDataChanges(signature) ==
  /\ dash.changes < MaxChanges
  /\ dash' = [dash EXCEPT
                !.exportData = signature,
                !.changes = @ + 1,
                !.ingestions = IF dash.lastProcessedExportData # signature
                               THEN Append(@, [signature |-> signature, pc |-> "awaiting",
                                               change |-> dash.changes + 1])
                               ELSE @]
  /\ UNCHANGED <<orchVars, probe, ing, csv, svc, agg>>

\* The downloads of one call of processCsvData are over: the signature is
\* recorded and onCsvDataLoaded hands the rows to the Dashboard.
IngestionFinishes(i) ==
  /\ i \in DOMAIN dash.ingestions
  /\ dash.ingestions[i].pc = "awaiting"
  /\ dash' = [dash EXCEPT
                !.ingestions[i].pc = "done",
                !.lastProcessedExportData = dash.ingestions[i].signature,
                !.csvData = dash.ingestions[i].signature]
  /\ UNCHANGED <<orchVars, probe, ing, csv, svc, agg>>

NextDash ==
  \/ \E signature \in Signatures : ExportDataChanges(signature)
  \/ \E i \in 1..MaxChanges : IngestionFinishes(i)

SpecDash == InitDash /\ [][NextDash]_vars

\* =============================================================== claims
Started(r) == runs[r].pc \notin {"idle", "listing"}
InLoop(r) == runs[r].pc \in {"requesting", "backoff", "delay"}

\* The lines a run has added to its reports (after the ones it began with).
ownReports(run) == SubSeq(run.reports, Len(run.exportedReports) + 1, Len(run.reports))

\* The finished full-year descriptors of a list for year y.
FullYearFor(list, y) ==
  { k \in DOMAIN list :
      /\ isFinished(list[k])
      /\ getYearFromTimeRange(list[k].timeFrom, list[k].timeTo, now).ok
      /\ getYearFromTimeRange(list[k].timeFrom, list[k].timeTo, now).year = y }

\* The years a run should request, by the list its own listExports returned.
Gaps(run) ==
  { y \in run.startYear..CurrentYear :
      y = CurrentYear \/ FullYearFor(run.listed, y) = {} }

\* C1: in a run with start year S, an export request is issued for year y
\* if and only if S <= y <= C and (y = C or the exports listed by the run
\* hold no finished full-year descriptor for y): never for a covered past
\* year, and by the end of the run for every other year.
C1_RequestsExactlyTheGaps ==
  \A r \in RunIds :
    (Started(r) /\ runs[r].listOk) =>
      /\ runs[r].sentYears \subseteq Gaps(runs[r])
      /\ runs[r].pc = "done" => runs[r].sentYears = Gaps(runs[r])

\* C2: the coverage analysis of a run is computed from the export list that
\* the run's own listExports call returned.
C2_CoverageFromOwnListing ==
  \A r \in RunIds :
    (Started(r) /\ runs[r].listOk) =>
      runs[r].yearsToExport = yearsToExport(runs[r].startYear, runs[r].listed, now)

\* C3: the current year is never among the covered years, whatever finished
\* descriptors exist for it, so every run requests the current year.
C3_CurrentYearNeverCovered ==
  /\ CurrentYear \notin coveredYears(server, now)
  /\ CurrentYear \notin coveredYears(existingExports, now)
  /\ \A r \in RunIds :
       Started(r) =>
         /\ CurrentYear \notin coveredYears(runs[r].existingExports, now)
         /\ CurrentYear \in SeqToSet(runs[r].yearsToExport)
         /\ runs[r].pc = "done" => CurrentYear \in runs[r].sentYears

C3_Witness ==
  \E r \in RunIds :
    /\ runs[r].pc = "done"
    /\ FullYearFor(runs[r].existingExports, CurrentYear) # {}
    /\ CurrentYear \in runs[r].sentYears

\* C4: when the listed exports hold two or more finished full-year
\* descriptors for one past year, coverage analysis maps the year to the
\* one with the later timeTo, whatever their order in the list.
C4_CoverageKeepsLaterTimeTo ==
  \A r \in RunIds :
    Started(r) =>
      LET list == runs[r].existingExports
          m == yearToReportIdMap(list, now)
      IN  \A y \in coveredYears(list, now) :
            \A k \in FullYearFor(list, y) :
              \E j \in FullYearFor(list, y) :
                /\ list[j].reportId = MapGet(m, y)
                /\ Secs(list[j].timeTo) >= Secs(list[k].timeTo)

\* C5: after any sequence of onExportComplete deliveries the Dashboard's
\* exportData and HistoryDownload's exports hold at most one descriptor per
\* calendar year, one for every year delivered, and the one held has the
\* latest timeTo of all descriptors delivered so far for its year.
OnePerYearLatest(held) ==
  LET yearOf(exp) == DashboardGetYearFromTimeRange(exp.timeFrom, exp.timeTo)
  IN  /\ \A a, b \in DOMAIN held : a # b => yearOf(held[a]) # yearOf(held[b])
      /\ \A a \in DOMAIN held : yearOf(held[a]) # NoYear
      /\ \A d \in delivered :
           yearOf(d) # NoYear =>
             \E a \in DOMAIN held :
               /\ yearOf(held[a]) = yearOf(d)
               /\ Secs(held[a].timeTo) >= Secs(d.timeTo)

C6_SequentialAscending ==
  \A r \in RunIds :
    LET run == runs[r]
        years == run.yearsToExport
    IN  Started(r) =>
          /\ \A a, b \in DOMAIN years : a < b => years[a] < years[b]
          /\ run.sentYears = {years[k] : k \in 1..run.i}
          /\ \A z \in run.sentYears \ {years[run.i]} :
               /\ z < years[run.i]
               /\ \E k \in DOMAIN ownReports(run) :
                    /\ ownReports(run)[k].year = z
                    /\ ownReports(run)[k].status \in {"exported", "failed"}
          /\ run.pc \in {"requesting", "backoff"} =>
               \A k \in DOMAIN ownReports(run) : ownReports(run)[k].year # years[run.i]

C6_Witness ==
  \E r \in RunIds :
    /\ runs[r].pc = "requesting"
    /\ runs[r].i = 3
    /\ Cardinality(runs[r].sentYears) = 3

\* C7: a 429 answer is retried at most twice for the year (retryCount
\* 0, 1, 2: at most 3 requests), after 20000 ms and then 40000 ms; the
\* third 429 of the year, and any other rejection at once, puts the
\* year's failed line into the reports with no further request for it.
C7_Answer(a, b) ==
  /\ (b.lastStatus = 429 /\ a.retryCount = 0) =>
        (b.pc = "backoff" /\ b.delayMs = 20000 /\ b.reports = a.reports)
  /\ (b.lastStatus = 429 /\ a.retryCount = 1) =>
        (b.pc = "backoff" /\ b.delayMs = 40000 /\ b.reports = a.reports)
  /\ (b.lastStatus = 429 /\ a.retryCount >= 2) =>
        (b.pc = "delay" /\ Len(b.reports) = Len(a.reports) + 1
           /\ b.reports[Len(b.reports)].status = "failed"
           /\ b.reports[Len(b.reports)].year = a.yearsToExport[a.i])
  /\ b.lastStatus \notin {200, 429} =>
        (b.pc = "delay" /\ Len(b.reports) = Len(a.reports) + 1
           /\ b.reports[Len(b.reports)].status = "failed"
           /\ b.reports[Len(b.reports)].year = a.yearsToExport[a.i])

C7_Retry(a, b) ==
  /\ b.pc = "requesting"
  /\ b.i = a.i
  /\ b.retryCount = a.retryCount + 1
  /\ a.lastStatus = 429

RateLimitedLines(run) ==
  { k \in DOMAIN ownReports(run) :
      /\ ownReports(run)[k].status = "failed"
      /\ ownReports(run)[k].error = thrownMessage(429) }

\* C8: each year that still fails with 429 after its retries doubles the
\* run's base delay (capped at 120000 ms), and the doubled value is the
\* wait before the later years.
C8_BaseDelayDoubles ==
  \A r \in RunIds :
    InLoop(r) =>
      /\ runs[r].baseDelay =
           Min(InitialBaseDelay * Pow2(Cardinality(RateLimitedLines(runs[r]))), MaxBaseDelay)
      /\ runs[r].pc = "delay" => runs[r].delayMs = runs[r].baseDelay

FailedLine(run, year, st) ==
  \E k \in DOMAIN ownReports(run) :
    /\ ownReports(run)[k].year = year
    /\ ownReports(run)[k].status = "failed"
    /\ ownReports(run)[k].error = thrownMessage(st)

\* C10: a year rejected with a status that is neither 429 nor 401/403
\* leaves a failed line for the year; the run still requests every
\* remaining year, ends without the "Export failed" error, and hands the
\* report ids of the years that succeeded to onExportComplete.
C10_Recorded ==
  \A r \in RunIds :
    LET run == runs[r]
        years == run.yearsToExport
    IN  /\ (run.pc = "delay" /\ run.lastStatus = 500) => FailedLine(run, years[run.i], 500)
        /\ (run.pc = "done" /\ \E y \in SeqToSet(years) : FailedLine(run, y, 500)) =>
              /\ run.sentYears = SeqToSet(years)
              /\ \A k \in DOMAIN ownReports(run) :
                   ownReports(run)[k].status = "exported" =>
                     /\ ownReports(run)[k].reportId \in SeqToSet(exportedReportIds)
                     /\ \E d \in delivered :
                          /\ d.reportId = ownReports(run)[k].reportId
                          /\ d.timeFrom = ownReports(run)[k].timeFrom
                          /\ d.timeTo = ownReports(run)[k].timeTo

C10_PartialFailureTolerated ==
  /\ []C10_Recorded
  /\ [][\A r \in RunIds :
          (runs[r].pc = "requesting" /\ runs'[r].pc # "requesting" /\ runs'[r].lastStatus = 500) =>
             /\ runs'[r].pc = "delay"
             /\ error' = error
             /\ isExporting' = isExporting]_vars

C10_Witness ==
  \E r \in RunIds :
    /\ runs[r].pc = "done"
    /\ \E a, b \in DOMAIN ownReports(runs[r]) :
         /\ a < b
         /\ ownReports(runs[r])[a].status = "failed"
         /\ ownReports(runs[r])[a].error = thrownMessage(500)
         /\ ownReports(runs[r])[b].status = "exported"
         /\ ownReports(runs[r])[b].reportId \in SeqToSet(exportedReportIds)

\* The year lines of a run that failed on an authentication error.
AuthFailedLines(run) ==
  { k \in DOMAIN ownReports(run) :
      /\ ownReports(run)[k].status = "failed"
      /\ ownReports(run)[k].error = thrownMessage(401) }

\* C11: a year rejected with 401 (or 403) is not retried, the run is
\* aborted at once (no export request for any later year of the run) and
\* the error is surfaced: the run ends with the "Export failed" error set.
C11_AuthErrorAborts ==
  \A r \in RunIds :
    \A k \in AuthFailedLines(runs[r]) :
      /\ \A y \in runs[r].sentYears : y <= ownReports(runs[r])[k].year
      /\ runs[r].pc = "done" => error = "exportFailed"

\* C12: when the listing made at the start of a run fails, the run issues
\* no export request at all and the listing error stays reported.
C12_ListingFailureFailsRun ==
  \A r \in RunIds :
    (Started(r) /\ ~runs[r].listOk) =>
      /\ runs[r].sentYears = {}
      /\ error \in {"list429", "listFailed"}

\* C13: at most one run is in progress at any time: a click on Start
\* Export between a run's start (its listing included) and its end starts
\* no second run.
C13_SingleRunInProgress ==
  Cardinality({r \in DOMAIN runs : runs[r].pc \notin {"idle", "done"}}) <= 1

\* What a run hands to onExportComplete: the full-year exports of its
\* listing, and the descriptors it passes at its end.
runDelivered(run) ==
  SeqToSet(run.passed) \cup
    (IF run.listOk THEN SeqToSet(fullYearExports(run.listed, now)) ELSE {})

\* C14: a completed run delivers the pre-existing descriptors of the
\* covered years it was asked for and a record for every export it
\* created, and no record created by an earlier run.
C14_DeliversExistingAndOwn ==
  \A r \in DOMAIN runs :
    LET run == runs[r]
        existing == existingExportData(run.startYear, run.existingExports, now)
    IN  run.pc = "done" =>
          /\ SeqToSet(existing) \subseteq runDelivered(run)
          /\ \A id \in SeqToSet(run.successfulReportIds) :
               \E d \in SeqToSet(run.passed) : d.reportId = id
          /\ \A d \in SeqToSet(run.passed) :
               \/ d.reportId \in SeqToSet(run.successfulReportIds)
               \/ d \in SeqToSet(existing)

\* The full-year shape the specification gives: timeFrom exactly
\* Y-01-01T00:00:00Z; timeTo Y-12-31T23:59:55..59 for a past year, any
\* timestamp of the year for the current year.
StrictFullYear(from, to, y) ==
  /\ from = Jan1(y)
  /\ to.y = y
  /\ \/ y = CurrentYear
     \/ to.mo = 11 /\ to.d = 31 /\ to.h = 23 /\ to.mi = 59 /\ to.s \in 55..59

\* C15: a finished descriptor is assigned a covered year Y only if it has
\* the strict full-year shape for Y; every other descriptor is ignored by
\* coverage analysis.
C15_StrictFullYearOnly ==
  probe.pc = "analyzed" =>
    /\ probe.yearResult.ok =>
         /\ isFinished(probe.exp)
         /\ StrictFullYear(probe.exp.timeFrom, probe.exp.timeTo, probe.yearResult.year)
    /\ \A y \in probe.years :
         /\ isFinished(probe.exp)
         /\ StrictFullYear(probe.exp.timeFrom, probe.exp.timeTo, y)

\* The component that waits for processing exports.
Polling == ing.pc # "off" /\ ing.variant = "part_002"

\* The export items that ingestion found in status processing.
ProcessingTargets ==
  { j \in DOMAIN ing.targetExports : ing.targetExports[j].status = "Processing" }

C16_Polls ==
  Polling =>
    /\ ing.pc \in {"poll", "pollWait"} =>
         /\ ing.t \in ProcessingTargets
         /\ ing.attempt \in 1..30
    /\ ing.pc = "pollWait" => (ing.attempt < 30 /\ ing.delayMs = 10000)
    /\ ing.pc = "done" =>
         /\ ing.error = "null"
         /\ \A j \in DOMAIN ing.targetExports :
              LET exp == ing.targetExports[j]
              IN  IF j \in ProcessingTargets
                  THEN /\ ing.lastPoll[exp.reportId] # "none"
                       /\ exp.reportId \in ing.fetched <=> ing.lastPoll[exp.reportId] = "finished"
                       /\ ing.lastPoll[exp.reportId] # "finished" =>
                            \A k \in DOMAIN ing.result : ing.result[k].reportId # exp.reportId
                  ELSE (exp.status = "Finished" /\ exp.downloadLink = "url")
                          => exp.reportId \in ing.fetched

C16_PollStep ==
  (Polling /\ ing.pc = "poll" /\ ing' # ing) =>
     LET id == ing.targetExports[ing.t].reportId
         ans == ing'.lastPoll[id]
     IN  /\ ing'.pc = "pollWait" <=> (ans = "processing" /\ ing.attempt < 30)
         /\ ing'.pc = "pollWait" => ing'.attempt = ing.attempt
         /\ ans = "finished" <=>
              \E j \in DOMAIN ing'.updatedExports :
                /\ ing'.updatedExports[j].reportId = id
                /\ ing'.updatedExports[j].status = "Finished"
                /\ ing'.updatedExports[j].downloadLink = "url"
         /\ ing'.pc # "pollWait" => Len(ing'.updatedExports) >= ing.t
         /\ ing'.error = "null"

C17_FetchOnlyFinishedWithLink ==
  ing.pc # "off" =>
    /\ \A id \in ing.fetched :
         \E j \in DOMAIN ing.updatedExports :
           /\ ing.updatedExports[j].reportId = id
           /\ ing.updatedExports[j].status = "Finished"
           /\ ing.updatedExports[j].downloadLink # "null"
    /\ \A j \in DOMAIN ing.updatedExports :
         LET exp == ing.updatedExports[j]
         IN  (exp.status # "Finished" \/ exp.downloadLink = "null") =>
               /\ exp.reportId \notin ing.fetched
               /\ \A k \in DOMAIN ing.allCsvData : ing.allCsvData[k].reportId # exp.reportId
               /\ \A k \in DOMAIN ing.result : ing.result[k].reportId # exp.reportId
    /\ \A k \in DOMAIN ing.result : ing.result[k].reportId \in ing.fetched
    /\ ing.pc = "done" =>
         \A j \in DOMAIN ing.updatedExports :
           (ing.updatedExports[j].status = "Finished" /\ ing.updatedExports[j].downloadLink # "null")
              => ing.updatedExports[j].reportId \in ing.fetched

C17_Witness ==
  /\ ing.pc = "done"
  /\ ing.variant = "part_003"
  /\ ing.result # <<>>
  /\ \E j \in DOMAIN ing.updatedExports :
       /\ ing.updatedExports[j].status = "Finished"
       /\ ing.updatedExports[j].downloadLink = "null"
       /\ ing.updatedExports[j].reportId \notin ing.fetched

\* The rows of the descriptors whose fetch and parse succeeded.
RECURSIVE concat(_)
concat(ss) == IF ss = <<>> THEN <<>> ELSE Head(ss) \o concat(Tail(ss))

C18_Result ==
  (ing.pc = "done" /\ ing.failed # {}) =>
    /\ ing.error = "null"
    /\ Len(ing.result) = Len(concat(ing.parsed))
    /\ SeqToSet(ing.result) = SeqToSet(concat(ing.parsed))
    /\ \A k \in DOMAIN ing.result : ing.result[k].reportId \notin ing.failed
    /\ ing.loaded = ing.result
    /\ ing.fetched = {ing.finishedExports[j].reportId : j \in DOMAIN ing.finishedExports}

\* C18: when the fetch or parse of one descriptor fails, ingestion still
\* completes without error and its result holds exactly the rows of the
\* descriptors whose fetch and parse succeeded, none of the failed one.
C18_OneFailureTolerated ==
  /\ []C18_Result
  /\ [][(ing.pc = "fetch" /\ ing'.failed # ing.failed) =>
          /\ ing'.pc \in {"fetch", "done"}
          /\ ing'.allCsvData = ing.allCsvData
          /\ ing'.error = "null"]_vars

C18_Witness ==
  /\ ing.pc = "done"
  /\ Cardinality(ing.failed) = 1
  /\ Len(ing.result) = 2
  /\ ing.f = 3

\* Rows that the comparator leaves in place: both without a usable Time,
\* or of equal Time.
SameRank(a, b) ==
  \/ (~truthy(a.Time) \/ isNaN(a.Time)) /\ (~truthy(b.Time) \/ isNaN(b.Time))
  \/ ~isNaN(a.Time) /\ ~isNaN(b.Time) /\ dateValue(a.Time) = dateValue(b.Time)

\* Position of a row in the concatenation of the fetched rows.
PlaceOf(row) == CHOOSE k \in DOMAIN ing.allCsvData : ing.allCsvData[k] = row

\* C19: the merged list is a permutation of all fetched rows, non-decreasing
\* by parsed Time, and rows of equal, missing or unparsable Time keep their
\* relative order from the concatenation.
C19_SortedStable ==
  ing.pc = "done" =>
    /\ Len(ing.result) = Len(ing.allCsvData)
    /\ SeqToSet(ing.result) = SeqToSet(ing.allCsvData)
    /\ \A i, j \in DOMAIN ing.result :
         i < j =>
           /\ (~isNaN(ing.result[i].Time) /\ ~isNaN(ing.result[j].Time)) =>
                 dateValue(ing.result[i].Time) <= dateValue(ing.result[j].Time)
           /\ SameRank(ing.result[i], ing.result[j]) =>
                 PlaceOf(ing.result[i]) < PlaceOf(ing.result[j])

C20_Char ==
  (csv.pc = "scan" /\ csv'.scanner # csv.scanner) =>
    LET st == csv.scanner
        nx == csv'.scanner
        char == st.line[st.i]
        escaped == /\ char = "\"" /\ st.inQuotes
                   /\ st.i < Len(st.line) /\ st.line[st.i + 1] = "\""
    IN  /\ (char = "," /\ ~st.inQuotes) <=> Len(nx.result) = Len(st.result) + 1
        /\ (char = "," /\ ~st.inQuotes) =>
              (nx.result = Append(st.result, trim(st.current)) /\ nx.current = <<>>)
        /\ (char = "," /\ st.inQuotes) => nx.current = Append(st.current, ",")
        /\ escaped => /\ nx.current = Append(st.current, "\"")
                      /\ nx.i = st.i + 2
                      /\ nx.inQuotes
        /\ (char = "\"" /\ ~escaped) => /\ nx.inQuotes = ~st.inQuotes
                                        /\ nx.current = st.current
                                        /\ nx.i = st.i + 1
        /\ char # "\"" => nx.inQuotes = st.inQuotes

C20_Example ==
  (csv.pc \in {"row", "skipped"} /\ csv.scanner.line = ExampleLine) =>
     csv.rows = << [h \in {<<"x">>, <<"y">>, <<"z">>} |->
                      CASE h = <<"x">> -> <<"a", ",", "b">>
                        [] h = <<"y">> -> <<"c">>
                        [] h = <<"z">> -> <<"d", "\"", "e">>] >>

\* C20: parseCSVLine splits at a comma only outside quotes, turns a doubled
\* quote inside a quoted field into one literal quote and toggles the quote
\* state on every other quote; the line "a,b",c,"d""e" under header x,y,z
\* gives the single row {x: 'a,b', y: 'c', z: 'd"e'}.
C20_QuotedFields ==
  /\ [][C20_Char]_vars
  /\ []C20_Example
  /\ [](csv.pc = "values" => csv.values = parseCSVLine(csv.scanner.line))

C20_Witness ==
  /\ csv.pc = "row"
  /\ csv.scanner.line = ExampleLine
  /\ Len(csv.values) = 3

C21_Line ==
  (csv.pc = "rows" /\ csv'.k = csv.k + 1) =>
    LET values == parseCSVLine(trim(csv.lines[csv.k]))
        n == Len(values)
        h == Len(csv.hdrs)
    IN  IF n - h <= 2 /\ h - n <= 2
        THEN /\ Len(csv'.rows) = Len(csv.rows) + 1
             /\ SubSeq(csv'.rows, 1, Len(csv.rows)) = csv.rows
             /\ csv'.skippedRows = csv.skippedRows
             /\ LET row == csv'.rows[Len(csv'.rows)]
                IN  /\ DOMAIN row = SeqToSet(csv.hdrs)
                    /\ \A j \in 1..h : row[csv.hdrs[j]] = IF j <= n THEN values[j] ELSE <<>>
        ELSE /\ csv'.rows = csv.rows
             /\ csv'.skippedRows = csv.skippedRows + 1

\* C21: parseCsv accepts a data row exactly when its field count differs
\* from the header count by at most 2 and fills the columns without a value
\* with the empty string; a row that differs by more is skipped and
\* counted, and the rows after it are still parsed.
C21_RaggedRows ==
  /\ [][C21_Line]_vars
  /\ [](csv.pc = "rows" => csv.k \in 2..Len(csv.lines))
  /\ []((csv.pc = "parsed" /\ Len(csv.lines) >= 2) =>
          /\ csv.k = Len(csv.lines) + 1
          /\ Len(csv.rows) + csv.skippedRows = Len(csv.lines) - 1)

C21_Witness ==
  /\ csv.pc = "parsed"
  /\ csv.hdrs = <<<<"x">>>>
  /\ csv.text = <<<<"x">>, <<",", ",", ",">>, <<"a", ",">>>>
  /\ csv.skippedRows = 1
  /\ csv.rows = <<[header \in {<<"x">>} |-> <<"a">>]>>

C21_WitnessDefaulted ==
  /\ csv.pc = "parsed"
  /\ csv.text = <<HeaderLine, <<"a", ",", "a">>>>
  /\ csv.rows = <<[header \in {<<"x">>, <<"y">>, <<"z">>} |->
                     IF header = <<"z">> THEN <<>> ELSE <<"a">>]>>

\* A value written as a CSV field: quoted when it holds a comma or a quote,
\* with every quote doubled.
RECURSIVE doubled(_)
doubled(v) ==
  IF v = <<>> THEN <<>>
  ELSE (IF Head(v) = "\"" THEN <<"\"", "\"">> ELSE <<Head(v)>>) \o doubled(Tail(v))

csvField(v) ==
  IF \E i \in DOMAIN v : v[i] \in {",", "\""}
  THEN <<"\"">> \o doubled(v) \o <<"\"">>
  ELSE v

RECURSIVE joined(_)
joined(fields) ==
  IF Len(fields) = 0 THEN <<>>
  ELSE IF Len(fields) = 1 THEN fields[1]
  ELSE fields[1] \o <<",">> \o joined(Tail(fields))

serialize(hdrs, records) ==
  <<joined(hdrs)>> \o
  [k \in DOMAIN records |-> joined([j \in DOMAIN hdrs |-> csvField(records[k][hdrs[j]])])]

FieldValues == UNION { [1..n -> Alphabet] : n \in 0..1 }

\* C22: serializing records (string values without newline) to CSV and
\* parsing the text with parseCsv gives back the records.
C22_RoundTrip ==
  csv.pc = "parsed" =>
    \A hdrs \in {<<<<"x">>>>, <<<<"x">>, <<"y">>>>} :
      \A records \in [1..(Len(csv.text) - 1) -> [SeqToSet(hdrs) -> FieldValues]] :
        serialize(hdrs, records) = csv.text => csv.rows = records

\* A call of getAccountCash starts.
CashCalled ==
  /\ Len(svc'.calls) = Len(svc.calls) + 1
  /\ svc'.calls[Len(svc'.calls)].op = "getAccountCash"

\* The call that starts returns the verified data at once, without a
\* request, and leaves the cache empty.
ServedFromCache ==
  LET call == svc'.calls[Len(svc'.calls)]
  IN  /\ call.pc = "done"
      /\ call.ret = svc.verified
      /\ ~call.network
      /\ svc'.requests = svc.requests
      /\ svc'.cachedData = "null"

\* The call that starts issues a request.
ServedByRequest ==
  /\ svc'.calls[Len(svc'.calls)].network
  /\ svc'.requests = svc.requests + 1

C23_OriginalStep ==
  CashCalled => IF svc.verified # "none" THEN ServedFromCache ELSE ServedByRequest

\* C23 as stated: the response cached by a successful verifyApiKey is
\* returned by exactly one later getAccountCash without a request; that
\* call empties the cache and the next getAccountCash issues a request.
C23_CachedOnce == [][C23_OriginalStep]_vars

C23_AmendedStep ==
  (CashCalled /\ ~svc.mock /\ svc.verified # "") =>
     IF svc.verified # "none" THEN ServedFromCache ELSE ServedByRequest

\* C23 amended: outside the development mock mode, a non-empty response
\* cached by a successful verifyApiKey is returned by exactly one later
\* getAccountCash without a request; that call empties the cache and the
\* next getAccountCash issues a request.
C23_CachedOnceOutsideMock ==
  /\ [][C23_AmendedStep]_vars
  /\ []((~svc.mock /\ svc.verified \notin {"none", ""}) => svc.cachedData = svc.verified)
  /\ []((~svc.mock /\ svc.verified = "none") => ~cacheUsable(svc.cachedData))

C23_Witness ==
  /\ ~svc.mock
  /\ Len(svc.calls) = 3
  /\ svc.calls[1].op = "verifyApiKey" /\ svc.calls[1].ret = "cashA"
  /\ svc.calls[2].op = "getAccountCash" /\ svc.calls[2].ret = "cashA" /\ ~svc.calls[2].network
  /\ svc.calls[3].op = "getAccountCash" /\ svc.calls[3].network
  /\ svc.requests = 2

\* The rows of the list whose Action holds the word dividend in any case.
DividendRows ==
  { i \in DOMAIN agg.csvData :
      \E j \in DOMAIN agg.csvData[i].Action :
        agg.csvData[i].Action[j] \in {"dividend", "Dividend", "DIVIDEND"} }

\* The amount of a row: its Total as a number, zero when it is none.
AmountOf(row) ==
  IF row.Total = "10" THEN 10 ELSE IF row.Total = "5" THEN 5 ELSE IF row.Total = "3" THEN 3 ELSE 0

RECURSIVE SumOfAmounts(_)
SumOfAmounts(rows) ==
  IF rows = {} THEN 0
  ELSE LET i == CHOOSE i \in rows : TRUE
       IN  AmountOf(agg.csvData[i]) + SumOfAmounts(rows \ {i})

RECURSIVE SumField(_, _)
SumField(m, field) ==
  IF m = <<>> THEN 0 ELSE Head(m).v[field] + SumField(Tail(m), field)

RECURSIVE NetShares(_, _)
NetShares(ticker, n) ==
  IF n = 0 THEN 0
  ELSE LET row == agg.tradingTransactions[n]
           tk == IF row.Ticker = "" THEN "Unknown" ELSE row.Ticker
           sh == IF row.shares = "1" THEN 100000
                 ELSE IF row.shares = "0.99995" THEN 99995
                 ELSE IF row.shares = "0.00005" THEN 5 ELSE 0
           signed == IF row.Action[2] \in {"buy", "Buy"} THEN sh ELSE 0 - sh
       IN  NetShares(ticker, n - 1) + (IF tk = ticker THEN signed ELSE 0)

\* C25: after the trading aggregator has processed a sequence of buy and
\* sell rows, each ticker's totalShares is the shares bought minus the
\* shares sold, and isOpen is false when that net count is zero within the
\* tolerance and true when it is above the tolerance.
C25_PositionOpenFlag ==
  agg.pc = "done" =>
    \A j \in DOMAIN agg.result.positions :
      LET ticker == agg.result.positions[j].k
          position == agg.result.positions[j].v
          net == NetShares(ticker, Len(agg.tradingTransactions))
      IN  /\ position.totalShares = net
          /\ (net >= 0 - 10 /\ net <= 10) => ~position.isOpen
          /\ net > 10 => position.isOpen

\* The list finally held comes from the most recent exportData.
C30_FinalListIsLatest ==
  (/\ dash.ingestions # <<>>
   /\ \A i \in DOMAIN dash.ingestions : dash.ingestions[i].pc = "done")
    => dash.csvData = dash.exportData

\* Two successive values of exportData with one signature start one
\* ingestion only.
C30_NoDoubleIngestion ==
  \A i, j \in DOMAIN dash.ingestions :
    (i < j /\ dash.ingestions[j].change = dash.ingestions[i].change + 1)
       => dash.ingestions[i].signature # dash.ingestions[j].signature

\* C30: when exportData changes while an earlier ingestion is in flight,
\* the list the Dashboard holds once all ingestions have finished is the one
\* computed from the most recent exportData, and an identical signature is
\* not ingested twice.
C30_LatestIngestionWins == C30_FinalListIsLatest /\ C30_NoDoubleIngestion

\* C26: a descriptor held or delivered by the client carries status
\* finished only if a listing has reported that report id as finished; a
\* report id merely returned by a request is not presented as finished.
\* (Jobs never leave the finished status, so a report that some listing
\* reported as finished is finished at the remote.)
C26_FinishedOnlyWhenListed ==
  \A d \in delivered \cup SeqToSet(exportData) :
    d.status \in {"finished", "Finished"} =>
      \E k \in DOMAIN server :
        /\ server[k].reportId = d.reportId
        /\ server[k].status = "Finished"

C27_Step(r) ==
  LET a == runs[r]
      b == runs'[r]
  IN  /\ (a.pc = "requesting" /\ b.pc \notin {"requesting", "backoff"}) =>
            IF b.lastStatus = 200 /\ a.i = Len(a.yearsToExport)
            THEN b.pc = "done" /\ b.delayMs = 0
            ELSE /\ b.pc = "delay"
                 /\ b.i = a.i
                 /\ b.delayMs = b.baseDelay
                 /\ b.delayMs >= 20000
      /\ (b.pc = "requesting" /\ a.i >= 1 /\ b.i = a.i + 1) =>
            /\ a.pc = "delay"
            /\ a.delayMs = a.baseDelay

\* C27: between the resolution of one year's request and the first request
\* for the next year of the run, the run waits the current base delay,
\* whether the year succeeded or failed; after a successful last year no
\* delay is taken.
C27_DelayBetweenYears == [][\A r \in DOMAIN runs : C27_Step(r)]_vars

C27_Witness ==
  \E r \in DOMAIN runs :
    /\ runs[r].pc = "done"
    /\ Len(ownReports(runs[r])) = 2
    /\ ownReports(runs[r])[1].status = "failed"
    /\ ownReports(runs[r])[2].status = "exported"
    /\ runs[r].delayMs = 0


\* A step in which run r sends an export request: the first request of the
\* next year (retryCount 0), or a retry of the same year, one more than the
\* last and never past MaxRetryCount.
C28_RequestStep(r) ==
  LET old == runs[r]
      new == runs'[r]
  IN  (new.pc = "requesting" /\ old.pc # "requesting") =>
        \/ new.retryCount = 0 /\ new.i = old.i + 1
        \/ /\ old.pc = "backoff"
           /\ new.i = old.i
           /\ new.retryCount = old.retryCount + 1
           /\ new.retryCount <= MaxRetryCount

C28_RetriesBounded ==
  \A r \in RunIds : runs[r].retryCount \in 0..MaxRetryCount

RecordsOf(reports, y) ==
  {k \in DOMAIN reports : reports[k].year = y /\ reports[k].status \in {"exported", "failed"}}

\* C29: when a run completes, its result list holds exactly one record for
\* each year the run set out to export, an 'exported' one carrying the report
\* id of the run's accepted request for that year, or else a 'failed' one.
C29_OneRecordPerYear ==
  \A r \in DOMAIN runs :
    LET run == runs[r]
    IN  run.pc = "done" =>
          \A j \in DOMAIN run.yearsToExport :
            LET recs == RecordsOf(run.reports, run.yearsToExport[j])
            IN  /\ Cardinality(recs) = 1
                /\ \A k \in recs :
                     run.reports[k].status = "exported" =>
                       run.reports[k].reportId \in SeqToSet(run.successfulReportIds)

====
